---- MODULE Spec2Model ----
(***************************************************************************)
(* Model of the nutrient-resolution pipeline of Agent_nutritionist:        *)
(* tool/calnnutri.py (search, detail fetch, serving normaliser, estimation *)
(* fallback, process_pipeline, record_nutrition) and the meal_record       *)
(* handlers of main.py and main_react.py.                                  *)
(*                                                                         *)
(* Python values are encoded as tagged records so that a value of the      *)
(* wrong type is a value of the model and not an omission: a JSON field is *)
(* absent, a numeric literal, a non-numeric string or null; a call returns *)
(* a value or raises.  Floats are modelled as exact reduced fractions      *)
(* (IEEE rounding is not modelled).                                        *)
(***************************************************************************)
EXTENDS Integers, Sequences, FiniteSets, TLC

\* ------------------------------------------------------------------------
\* Bounds of the model
\* ------------------------------------------------------------------------
MaxServings == 2
MaxMentions == 2
MaxFoods == 2
MaxRequests == 2
MaxClock == 2

\* ------------------------------------------------------------------------
\* Exact arithmetic standing for Python floats
\* ------------------------------------------------------------------------
Abs(x) == IF x < 0 THEN -x ELSE x

RECURSIVE Gcd(_, _)
Gcd(a, b) == IF b = 0 THEN a ELSE Gcd(b, a % b)

\* the fraction n/d (d > 0) in lowest terms
Rat(n, d) ==
    LET g == Gcd(Abs(n), d)
    IN  [n |-> n \div g, d |-> d \div g]

RatMul(x, y) == Rat(x.n * y.n, x.d * y.d)
RatAdd(x, y) == Rat(x.n * y.d + y.n * x.d, x.d * y.d)
RatZero == [n |-> 0, d |-> 1]

\* ------------------------------------------------------------------------
\* JSON field values as they arrive from the composition source
\* ------------------------------------------------------------------------
Absent == [t |-> "absent", v |-> 0]
Num(x) == [t |-> "num", v |-> x]
Bad == [t |-> "bad", v |-> 0]
Null == [t |-> "null", v |-> 0]

\* the six nutrient keys, in the order the normaliser converts them
NutrientOrder == <<"calories", "carbohydrate", "protein", "fat", "sodium", "sugar">>
NutrientKeys == {NutrientOrder[i] : i \in 1..Len(NutrientOrder)}

\* float(s.get(key, 0)): the value, or the exception float() raises
FloatOf(fv) ==
    CASE fv.t = "absent" -> [t |-> "ok", v |-> 0]
      [] fv.t = "num" -> [t |-> "ok", v |-> fv.v]
      [] fv.t = "bad" -> [t |-> "ValueError", v |-> 0]
      [] fv.t = "null" -> [t |-> "TypeError", v |-> 0]

\* ------------------------------------------------------------------------
\* Serving records and composition documents (bounded input sets)
\* ------------------------------------------------------------------------
Profile(cal, carb, prot, fat, sod, sug) ==
    [k \in NutrientKeys |->
        CASE k = "calories" -> cal
          [] k = "carbohydrate" -> carb
          [] k = "protein" -> prot
          [] k = "fat" -> fat
          [] k = "sodium" -> sod
          [] k = "sugar" -> sug]

FullProfile == Profile(Num(200), Num(40), Num(10), Num(5), Num(300), Num(2))
CalOnlyProfile == Profile(Num(130), Absent, Absent, Absent, Absent, Absent)
EmptyProfile == Profile(Absent, Absent, Absent, Absent, Absent, Absent)
BadCalProfile == Profile(Bad, Num(40), Num(10), Num(5), Num(300), Num(2))
NullProtProfile == Profile(Num(200), Num(40), Null, Num(5), Num(300), Num(2))
BadThenNullProfile == Profile(Bad, Num(40), Null, Num(5), Num(300), Num(2))
NullThenBadProfile == Profile(Null, Num(40), Num(10), Num(5), Num(300), Bad)
NegSodiumProfile == Profile(Num(200), Num(40), Num(10), Num(5), Num(-30), Num(2))

Profiles ==
    {FullProfile, CalOnlyProfile, EmptyProfile, BadCalProfile, NullProtProfile,
     BadThenNullProfile, NullThenBadProfile, NegSodiumProfile}

Amounts == {Num(100), Num(40), Num(0), Num(-100), Bad, Absent, Null}

Serving(unit, amount, nut, desc) ==
    [unit |-> unit, amount |-> amount, nut |-> nut, serving_description |-> desc]

\* gram servings vary the reference mass or the nutrient fields; the others
\* carry another unit or no unit at all
Servings ==
    {Serving("g", a, FullProfile, "1 serving") : a \in Amounts}
    \cup {Serving("g", Num(100), p, "100 g") : p \in Profiles}
    \cup {Serving("g", Num(40), CalOnlyProfile, "40 g"),
          Serving("oz", Num(100), FullProfile, "1 oz"),
          Serving("none", Num(100), CalOnlyProfile, "1 cup")}

RECURSIVE SeqsUpTo(_, _)
SeqsUpTo(S, n) ==
    IF n = 0 THEN {<<>>}
    ELSE LET shorter == SeqsUpTo(S, n - 1)
         IN  shorter \cup {Append(q, x) : q \in {r \in shorter : Len(r) = n - 1}, x \in S}

\* a detail response: nothing (request failed), a document without the
\* top-level 'food' key, or a food whose 'servings.serving' is missing, null
\* at 'servings', a single object or a list
Doc(kind, shape, servings) == [kind |-> kind, shape |-> shape, servings |-> servings]
DocNone == Doc("None", "nokey", <<>>)
DocNoFood == Doc("nofood", "nokey", <<>>)
DocNoServings == Doc("food", "nokey", <<>>)
DocServingsNull == Doc("food", "null", <<>>)

DocsOver(S, n) ==
    {DocNone, DocNoFood, DocNoServings, DocServingsNull}
    \cup {Doc("food", "single", <<s>>) : s \in S}
    \cup {Doc("food", "list", ss) : ss \in SeqsUpTo(S, n)}

CalcDocs == DocsOver(Servings, MaxServings)
Weights == {250, 100, 0, -50}

\* ------------------------------------------------------------------------
\* calculate_nutrients_from_api
\* ------------------------------------------------------------------------
ZeroNutrients == [k \in NutrientKeys |-> RatZero]
NoServing == Serving("none", Absent, EmptyProfile, "")

CalcNone == [t |-> "None", n |-> ZeroNutrients, s |-> NoServing]
CalcRaise == [t |-> "raise", n |-> ZeroNutrients, s |-> NoServing]
CalcOk(n, s) == [t |-> "ok", n |-> n, s |-> s]

\* a ratio that takes every serving to be per 100 g
Ratio_per100(user_g, metric_amt) == Rat(user_g, 100)

\* ratio = user_g / metric_amt
Ratio(user_g, metric_amt) == Rat(user_g, metric_amt)

\* float(s.get(key, 0)) * ratio for each of the six keys
ScaleNutrients(s, ratio) ==
    [k \in NutrientKeys |-> RatMul(Rat(FloatOf(s.nut[k]).v, 1), ratio)]

\* the exception the six conversions raise, if any: the first failing one in
\* evaluation order decides
RECURSIVE FirstFailure(_, _)
FirstFailure(s, i) ==
    IF i > Len(NutrientOrder) THEN "ok"
    ELSE LET f == FloatOf(s.nut[NutrientOrder[i]])
         IN  IF f.t = "ok" THEN FirstFailure(s, i + 1) ELSE f.t

\* a unit test that accepts any unit that is present
IsGramServing_anyUnit(s) == s.unit # "none"

\* s.get('metric_serving_unit') == 'g'
IsGramServing(s) == s.unit = "g"

\* if metric_amt <= 0: continue
AmountIneligible(metric_amt) == metric_amt <= 0

\* the for loop over servings_data, from position i
RECURSIVE ScanServings(_, _, _)
ScanServings(ss, i, user_g) ==
    IF i > Len(ss) THEN CalcNone
    ELSE LET s == ss[i]
             amt == FloatOf(s.amount)
             fail == FirstFailure(s, 1)
         IN  IF ~IsGramServing(s) THEN ScanServings(ss, i + 1, user_g)
             ELSE IF amt.t = "ValueError" THEN ScanServings(ss, i + 1, user_g)
             ELSE IF amt.t = "TypeError" THEN CalcRaise
             ELSE IF AmountIneligible(amt.v) THEN ScanServings(ss, i + 1, user_g)
             ELSE IF fail = "ValueError" THEN ScanServings(ss, i + 1, user_g)
             ELSE IF fail = "TypeError" THEN CalcRaise
             ELSE CalcOk(ScaleNutrients(s, Ratio(user_g, amt.v)), s)

\* the JSON value found under food.servings.serving: one object, or a list
JsonObject(s) == [t |-> "dict", obj |-> s, items |-> <<>>]
JsonList(ss) == [t |-> "list", obj |-> NoServing, items |-> ss]

\* api_details['food'].get('servings', {}).get('serving', [])
ServingsData(api_details) ==
    IF api_details.shape = "single" THEN JsonObject(api_details.servings[1])
    ELSE JsonList(api_details.servings)

\* a normalisation that leaves a single object unwrapped
AsServingList_noWrap(servings_data) == servings_data.items

\* if isinstance(servings_data, dict): servings_data = [servings_data]
AsServingList(servings_data) ==
    IF servings_data.t = "dict" THEN <<servings_data.obj>> ELSE servings_data.items

calculate_nutrients_from_api(api_details, user_g) ==
    IF api_details.kind # "food" THEN CalcNone
    ELSE IF api_details.shape = "null" THEN CalcRaise
    ELSE ScanServings(AsServingList(ServingsData(api_details)), 1, user_g)

\* ------------------------------------------------------------------------
\* Python objects held by the pipeline: None, a dict over the six nutrient
\* keys and 'reason' (a key may be missing, numeric, null or a string), or a
\* JSON value that is no object
\* ------------------------------------------------------------------------
AllKeys == NutrientKeys \cup {"reason"}

VMissing == [t |-> "missing", r |-> RatZero, s |-> ""]
VNum(r) == [t |-> "num", r |-> r, s |-> ""]
VNull == [t |-> "null", r |-> RatZero, s |-> ""]
VStr(s) == [t |-> "str", r |-> RatZero, s |-> s]

EmptyDict == [k \in AllKeys |-> VMissing]
PyNone == [t |-> "None", d |-> EmptyDict]
PyList == [t |-> "list", d |-> EmptyDict]
PyDict(d) == [t |-> "dict", d |-> d]

\* Python truth value of an object
Truthy(x) ==
    \/ x.t = "list"
    \/ x.t = "dict" /\ \E k \in AllKeys : x.d[k].t # "missing"

\* the dict literal built by calculate_nutrients_from_api
NutrientDict(n) ==
    PyDict([k \in AllKeys |-> IF k \in NutrientKeys THEN VNum(n[k]) ELSE VMissing])

\* ------------------------------------------------------------------------
\* FatSecretAPI.search_food over the response of _request
\* ------------------------------------------------------------------------
\* a food reference of the search result: with a food_id, without one, or {}
FoodRef(kind, id) == [kind |-> kind, food_id |-> id]
NoRef == FoodRef("none", 0)
FoodRefs == {FoodRef("ref", 1), FoodRef("noid", 0), FoodRef("empty", 0)}

\* the response: None (request failed), a document without 'foods', 'foods'
\* that is null or a list, 'foods' without 'food', or 'food' as a list or a
\* single object
Response(kind, food) == [kind |-> kind, food |-> food]
ResponseNone == Response("None", <<>>)
SearchResponses ==
    {ResponseNone, Response("nofoods", <<>>), Response("foods_null", <<>>),
     Response("foods_list", <<>>), Response("nofood", <<>>)}
    \cup {Response("list", fs) : fs \in SeqsUpTo(FoodRefs, MaxFoods)}
    \cup {Response("single", <<f>>) : f \in FoodRefs}

SearchNone == [t |-> "None", ref |-> NoRef]
SearchRaise == [t |-> "raise", ref |-> NoRef]
SearchRef(f) == [t |-> "ref", ref |-> f]

\* a selection that takes the last match
FirstOrNone_last(food_list) ==
    IF Len(food_list) > 0 THEN SearchRef(food_list[Len(food_list)]) ELSE SearchNone

\* food_list[0] if food_list else None
FirstOrNone(food_list) ==
    IF Len(food_list) > 0 THEN SearchRef(food_list[1]) ELSE SearchNone

\* lines 99-105 over the value _request returned; data['foods'].get raises
\* AttributeError when 'foods' is no object
search_food(data) ==
    IF data.kind \in {"None", "nofoods"} THEN SearchNone
    ELSE IF data.kind \in {"foods_null", "foods_list"} THEN SearchRaise
    ELSE IF data.kind = "nofood" THEN FirstOrNone(<<>>)
    ELSE IF data.kind = "list" THEN FirstOrNone(data.food)
    ELSE SearchRef(data.food[1])

\* truth value of search_food's result: `if search_res:`
SearchTruthy(res) == res.t = "ref" /\ res.ref.kind # "empty"

\* ------------------------------------------------------------------------
\* FatSecretAPI._sign_request and _request
\* ------------------------------------------------------------------------
Url == "https://platform.fatsecret.com/rest/server.api"
ConsumerKey == "FATSECRET_CONSUMER_KEY"
ConsumerSecret == "FATSECRET_CONSUMER_SECRET"

\* values random.randint can give
Nonces == {7, 42}

NoParams == [k \in {} |-> ""]

\* params[k] = v for every k of more
WithParams(params, more) ==
    [k \in DOMAIN params \cup DOMAIN more |-> IF k \in DOMAIN more THEN more[k] ELSE params[k]]

\* lines 47-51: the five OAuth parameters written into params
OAuthParams(consumer_key, nonce, now) ==
    [oauth_consumer_key |-> consumer_key,
     oauth_nonce |-> ToString(nonce),
     oauth_signature_method |-> "HMAC-SHA1",
     oauth_timestamp |-> ToString(now),
     oauth_version |-> "1.0"]

\* a base string built from the OAuth parameters alone
BaseString_oauthOnly(params) ==
    [http_method |-> "GET", url |-> Url,
     params |-> [k \in DOMAIN params \ {"method", "format"} |-> params[k]]]

\* lines 54-62: method, URL and the sorted, encoded items of params; a
\* function over the keys stands for the sorted item list
BaseString(params) == [http_method |-> "GET", url |-> Url, params |-> params]

\* lines 65-73: HMAC-SHA1 of the base string under "<secret>&", base64
\* encoded; kept as the pair it is computed from
HmacSha1(signing_key, base_string) == [key |-> signing_key, msg |-> base_string]

\* the signature _sign_request returns for params as line 83 passes it
_sign_request(params, consumer_key, consumer_secret, nonce, now) ==
    HmacSha1(<<consumer_secret, "&">>,
             BaseString(WithParams(params, OAuthParams(consumer_key, nonce, now))))

\* lines 79-84: the dict handed to requests.get
RequestParams(method, params, consumer_key, consumer_secret, nonce, now) ==
    LET p == WithParams(params, [method |-> method, format |-> "json"])
        signature == _sign_request(p, consumer_key, consumer_secret, nonce, now)
    IN  WithParams(WithParams(p, OAuthParams(consumer_key, nonce, now)),
                   [oauth_signature |-> signature])

\* what requests.get, raise_for_status and response.json() make of a request
HttpOutcome(kind, body) == [kind |-> kind, body |-> body]
HttpFailures == {"network_error", "http_error", "not_json"}

SearchOutcomes ==
    {HttpOutcome(k, ResponseNone) : k \in HttpFailures}
    \cup {HttpOutcome("json", b) : b \in SearchResponses}

\* lines 86-92: the decoded body, or None when anything raised
_request(outcome, none) == IF outcome.kind = "json" THEN outcome.body ELSE none

\* ------------------------------------------------------------------------
\* estimate_nutrients_with_llm over the outcome of the chat completion
\* ------------------------------------------------------------------------
ZeroEstimate(reason) ==
    PyDict([k \in AllKeys |-> IF k = "reason" THEN VStr(reason) ELSE VNum(RatZero)])

EstFull ==
    PyDict([k \in AllKeys |->
        CASE k = "calories" -> VNum(Rat(165, 1))
          [] k = "carbohydrate" -> VNum(RatZero)
          [] k = "protein" -> VNum(Rat(31, 1))
          [] k = "fat" -> VNum(Rat(18, 5))
          [] k = "sodium" -> VNum(Rat(74, 1))
          [] k = "sugar" -> VNum(RatZero)
          [] k = "reason" -> VStr("llm")])
EstMissingKey ==
    PyDict([k \in AllKeys |->
        CASE k = "calories" -> VNum(Rat(165, 1))
          [] k = "reason" -> VStr("llm")
          [] OTHER -> VMissing])
EstNullValue == PyDict([EstFull.d EXCEPT !["sodium"] = VNull])
EstStringValue == PyDict([EstFull.d EXCEPT !["calories"] = VStr("165 kcal")])
EstEmpty == PyDict(EmptyDict)

\* what json.loads can give for the model's text
EstJson == {EstFull, EstMissingKey, EstNullValue, EstStringValue, EstEmpty, PyList, PyNone}

\* outcomes of the chat completion: the call raises, the message has no
\* content, the text is no JSON, or it is a JSON value, bare or inside a
\* markdown code fence
LlmReply(kind, val) == [kind |-> kind, val |-> val]
EstReplies ==
    {LlmReply("raise", PyNone), LlmReply("nocontent", PyNone), LlmReply("notjson", PyNone),
     LlmReply("fenced", EstFull)}
    \cup {LlmReply("json", v) : v \in EstJson}

\* content.replace("```json", "").replace("```", "")
StripFence(reply) == IF reply.kind = "fenced" THEN [reply EXCEPT !.kind = "json"] ELSE reply

Returned(v) == [t |-> "return", e |-> "", v |-> v]
Raised(e) == [t |-> "raise", e |-> e, v |-> PyNone]

\* the try block of lines 176-183: the call, .strip() on the content, the
\* fence removal and json.loads
EstimateBody(reply) ==
    CASE reply.kind = "raise" -> Raised("APIError")
      [] reply.kind = "nocontent" -> Raised("AttributeError")
      [] StripFence(reply).kind = "notjson" -> Raised("JSONDecodeError")
      [] OTHER -> Returned(StripFence(reply).val)

\* a handler that catches the parse failure only
EstimateCatches_parseOnly(e) == e = "JSONDecodeError"

\* line 184: except Exception
EstimateCatches(e) == TRUE

estimate_nutrients_with_llm(has_client, reply) ==
    IF ~has_client THEN Returned(ZeroEstimate("OpenAI client not initialized"))
    ELSE LET body == EstimateBody(reply)
         IN  IF body.t = "raise" /\ EstimateCatches(body.e)
             THEN Returned(ZeroEstimate("estimation failed"))
             ELSE body

\* ------------------------------------------------------------------------
\* Food mentions and the pipeline's bounded inputs
\* ------------------------------------------------------------------------
Mention(name, weight, specific, generic) ==
    [name_kr |-> name, weight_g |-> weight,
     search_term_specific |-> specific, search_term_generic |-> generic]

MentionSet ==
    {Mention("rice", 250, "steamed rice", "rice"),
     Mention("chicken", 100, "grilled chicken breast", "chicken")}

FoodLists == SeqsUpTo(MentionSet, MaxMentions)

\* an element that is no mention: a string (as met when iterating the keys
\* of an object or a list of names), or an object lacking mention keys
StrItem(s) == [text |-> s]
PartialItem(name) == [name_kr |-> name]

\* the JSON value the extractor's text parses to, with the elements a for
\* loop over it visits: a list, an object (its keys), or null
ExtList(items) == [t |-> "list", items |-> items]
ExtDict(keys) == [t |-> "dict", items |-> keys]
ExtNull == [t |-> "null", items |-> <<>>]

ExtJson ==
    {ExtList(fl) : fl \in FoodLists}
    \cup {ExtList(<<StrItem("rice")>>),
          ExtList(<<PartialItem("rice")>>),
          ExtList(<<Mention("rice", 250, "steamed rice", "rice"), StrItem("chicken")>>),
          ExtDict(<<StrItem("name_kr"), StrItem("weight_g")>>),
          ExtDict(<<>>),
          ExtNull}

\* outcomes of the extraction call
ExtractReplies ==
    {LlmReply("raise", ExtNull), LlmReply("nocontent", ExtNull), LlmReply("notjson", ExtNull),
     LlmReply("fenced", ExtList(<<Mention("rice", 250, "steamed rice", "rice")>>))}
    \cup {LlmReply("json", v) : v \in ExtJson}

\* lines 136-148: whatever the try block raises is caught and gives []
parse_user_input_to_food_list(client_ok, reply) ==
    IF ~client_ok THEN ExtList(<<>>)
    ELSE IF reply.kind \in {"raise", "nocontent"} THEN ExtList(<<>>)
    ELSE IF StripFence(reply).kind = "notjson" THEN ExtList(<<>>)
    ELSE StripFence(reply).val

\* lines 237-240: the four keys read from an element of food_list
MentionKeys == {"name_kr", "weight_g", "search_term_specific", "search_term_generic"}
IsMention(item) == MentionKeys \subseteq DOMAIN item

\* search responses and detail documents offered to the pipeline: one of
\* each outcome class of search_food and of calculate_nutrients_from_api
PipelineResponses ==
    {Response("None", <<>>), Response("foods_null", <<>>),
     Response("list", <<FoodRef("ref", 1)>>), Response("single", <<FoodRef("ref", 1)>>),
     Response("list", <<FoodRef("noid", 0)>>), Response("single", <<FoodRef("empty", 0)>>)}

PipelineDocs ==
    {DocNone, DocNoFood, DocServingsNull,
     Doc("food", "single", <<Serving("g", Num(100), FullProfile, "100 g")>>),
     Doc("food", "list", <<Serving("oz", Num(100), FullProfile, "1 oz")>>),
     Doc("food", "list", <<Serving("g", Num(100), NullProtProfile, "100 g")>>)}

\* ------------------------------------------------------------------------
\* State
\* ------------------------------------------------------------------------
VARIABLES
    has_client,     \* calnnutri.client is not None (OPENAI_API_KEY set)
    has_fatsecret,  \* FATSECRET_KEY and FATSECRET_SECRET are both set
    handler,        \* which handle_meal_record runs: "main", "react", "none"
    reply_msg,      \* what the handler reports: "none", "recorded", "error", "param_missing"
    pc,             \* position inside handle_meal_record / record_nutrition
    extracted,      \* parse_user_input_to_food_list has returned in this run
    food_list,      \* the mention list of this run
    idx,            \* position of process_pipeline's for loop (1-based)
    nutrients,      \* process_pipeline's local of that name
    method,         \* process_pipeline's local of that name
    final_results,  \* process_pipeline's accumulator
    calls,          \* history: calls made for the mention being resolved
    tier1,          \* history: outcome of the specific tier for this mention
    tier2,          \* history: outcome of the generic tier for this mention
    ops_called,     \* history: the external operations called in this run
    exc,            \* where an exception was raised in this run, or "none"
    total,          \* record_nutrition's local of that name
    ret,            \* record_nutrition's return value
    log,            \* blocks of the nutrition log file
    log0,           \* history: the log file as the run found it
    calc_doc,       \* normaliser on its own: the document
    calc_w,         \* normaliser on its own: the user weight
    calc_out,       \* normaliser on its own: the result, or pending
    est_reply,      \* estimation on its own: the outcome of the chat completion
    est_out,        \* estimation on its own: the result, or pending
    ext_reply,      \* extraction on its own: the outcome of the chat completion
    ext_out,        \* extraction on its own: the result, or pending
    api_clock,      \* FatSecretAPI on its own: time.time(), in seconds
    api_rand,       \* history: the value random.randint returned last
    api_requests,   \* history: number of calls of _request
    api_params,     \* the params dict of the last call of requests.get
    api_data,       \* what _request returned last
    api_out         \* what search_food or get_food_details returned last

\* run_react_agent_once (main_react.py)
VARIABLES
    react_pc,       \* "idle", "loop" (top of while True), "called", "returned", "raised"
    step_count,     \* the local of that name
    messages,       \* the local of that name: role and kind of content of each message
    llm_output,     \* the local of that name: the last model output, as tokens
    observation,    \* the local of that name: the last observation
    react_ret,      \* the return value, or the exception that ended the run
    llm_calls,      \* history: number of calls of agent_llm in this run
    tool_runs,      \* history: number of handlers executed in this run
    tool_outcome    \* history: what the handler executed last did, or "none"

\* the nutrition log file and its two readers (calnnutri.py, reporter.py,
\* diet_agent.py)
VARIABLES
    rt_total,       \* the MealTotal record_nutrition writes, in tenths
    rt_date,        \* the date of the run that writes it
    nutrition_txt,  \* log/nutrition.txt: its blocks, each a date line and six lines
    rt_report,      \* what parse_nutrition_file returned, or pending
    rt_intake       \* what parse_nutrition_log returned, or pending

\* the meal log and the first-run metadata (coach.py)
VARIABLES
    coach_clock,    \* datetime.now(), in ticks
    metadata_json,  \* log/metadata.json
    log_txt,        \* log/log.txt: its lines
    weekly_out,     \* what generate_weekly_report_if_due did, or pending
    meta0,          \* history: metadata.json as the session found it
    first_call      \* history: the time of the first append_meal_log call, or -1

\* POST /api/info (app.py)
VARIABLES
    private_json,   \* log/private.json
    info_pc,        \* per request: "start", "merged", "opened", "done"
    new_data,       \* per request: request.json
    current_data,   \* per request: the local of that name
    info_resp       \* per request: the response, "none" until it is sent

\* the macro targets (bmrcal.py)
VARIABLES
    profile,        \* the UserProfile loaded from private.json
    macros          \* the MacroTargets main computes, or pending

vars ==
    <<has_client, has_fatsecret, handler, reply_msg, pc, extracted, food_list, idx,
      nutrients, method, final_results, calls, tier1, tier2, ops_called, exc, total,
      ret, log, log0, calc_doc, calc_w, calc_out, est_reply, est_out, ext_reply, ext_out,
      api_clock, api_rand, api_requests, api_params, api_data, api_out,
      react_pc, step_count, messages, llm_output, observation, react_ret, llm_calls,
      tool_runs, tool_outcome, rt_total, rt_date, nutrition_txt, rt_report, rt_intake,
      coach_clock, metadata_json, log_txt, weekly_out, meta0, first_call,
      private_json, info_pc, new_data, current_data, info_resp, profile, macros>>

pipeline_vars ==
    <<has_client, has_fatsecret, handler, reply_msg, pc, extracted, food_list, idx,
      nutrients, method, final_results, calls, tier1, tier2, ops_called, exc, total,
      ret, log, log0>>

calc_vars == <<calc_doc, calc_w, calc_out>>

llm_vars == <<est_reply, est_out, ext_reply, ext_out>>

api_vars == <<api_clock, api_rand, api_requests, api_params, api_data, api_out>>

react_vars ==
    <<react_pc, step_count, messages, llm_output, observation, react_ret, llm_calls,
      tool_runs, tool_outcome>>

rt_vars == <<rt_total, rt_date, nutrition_txt, rt_report, rt_intake>>

coach_vars == <<coach_clock, metadata_json, log_txt, weekly_out, meta0, first_call>>

info_vars == <<private_json, info_pc, new_data, current_data, info_resp>>

macro_vars == <<profile, macros>>

\* the components outside calnnutri.py and fatsecret.py
ext_vars == <<react_vars, rt_vars, coach_vars, info_vars, macro_vars>>

\* everything outside the run of handle_meal_record
unit_vars == <<calc_vars, llm_vars, api_vars, ext_vars>>

MethodNone == [tag |-> "", detail |-> ""]
ZeroTotal == [k \in NutrientKeys |-> RatZero]
RetPending == [t |-> "pending", total |-> ZeroTotal]
RetNone == [t |-> "None", total |-> ZeroTotal]
RetTotal(tot) == [t |-> "total", total |-> tot]
CalcPending == [t |-> "pending", n |-> ZeroNutrients, s |-> NoServing]
EstPending == [t |-> "pending", e |-> "", v |-> PyNone]
ExtPending == [t |-> "pending", items |-> <<>>]
DetailsReturned == [t |-> "details", ref |-> NoRef]

CalcIdle ==
    /\ calc_doc = DocNone
    /\ calc_w = 0
    /\ calc_out = CalcPending

LlmIdle ==
    /\ est_reply = LlmReply("raise", PyNone)
    /\ est_out = EstPending
    /\ ext_reply = LlmReply("raise", ExtNull)
    /\ ext_out = ExtPending

ApiIdle ==
    /\ api_clock = 0
    /\ api_rand = 0
    /\ api_requests = 0
    /\ api_params = NoParams
    /\ api_data = ResponseNone
    /\ api_out = SearchNone

NoObservation == [kind |-> "none", text |-> ""]
NoReturn == [kind |-> "none", text |-> <<>>]

ReactIdle ==
    /\ react_pc = "idle"
    /\ step_count = 0
    /\ messages = <<>>
    /\ llm_output = <<>>
    /\ observation = NoObservation
    /\ react_ret = NoReturn
    /\ llm_calls = 0
    /\ tool_runs = 0
    /\ tool_outcome = "none"

ReportPending == [t |-> "pending", days |-> <<>>]
IntakePending == [t |-> "pending", date |-> 0, kcal |-> 0, carb_g |-> 0, protein_g |-> 0,
                  fat_g |-> 0]

RtIdle ==
    /\ rt_total = [k \in NutrientKeys |-> 0]
    /\ rt_date = 0
    /\ nutrition_txt = <<>>
    /\ rt_report = ReportPending
    /\ rt_intake = IntakePending

\* metadata.json: "absent", "empty" (size 0), "unreadable" (not JSON),
\* "no_first_run" (no such key, or a falsy value), "bad_first_run" (a
\* truthy value that is no ISO time), "valid"
Meta(t, first_run) == [t |-> t, first_run |-> first_run]
MetaAbsent == Meta("absent", 0)
WeeklyPending == [t |-> "pending", dates |-> {}]

CoachIdle ==
    /\ coach_clock = 0
    /\ metadata_json = MetaAbsent
    /\ log_txt = <<>>
    /\ weekly_out = WeeklyPending
    /\ meta0 = MetaAbsent
    /\ first_call = -1

\* a file: "absent", "empty" (opened for writing, nothing written yet), or
\* "json" with the dict it holds
File(t, data) == [t |-> t, data |-> data]
FileAbsent == File("absent", <<>>)

InfoIdle ==
    /\ private_json = FileAbsent
    /\ info_pc = <<>>
    /\ new_data = <<>>
    /\ current_data = <<>>
    /\ info_resp = <<>>

UserProfile(age, sex, height_cm, weight_kg, activity_level, goal, exercise_level) ==
    [age |-> age, sex |-> sex, height_cm |-> height_cm, weight_kg |-> weight_kg,
     activity_level |-> activity_level, goal |-> goal, exercise_level |-> exercise_level]

MacroTargets(target_kcal, protein_g, fat_g, carb_g, protein_ratio, fat_ratio, carb_ratio) ==
    [t |-> "returned", target_kcal |-> target_kcal, protein_g |-> protein_g,
     fat_g |-> fat_g, carb_g |-> carb_g, protein_ratio |-> protein_ratio,
     fat_ratio |-> fat_ratio, carb_ratio |-> carb_ratio]

MacrosPending ==
    [t |-> "pending", target_kcal |-> 0, protein_g |-> 0, fat_g |-> 0, carb_g |-> 0,
     protein_ratio |-> RatZero, fat_ratio |-> RatZero, carb_ratio |-> RatZero]

MacroIdle ==
    /\ profile = UserProfile(0, "male", 0, 0, "sedentary", "maintenance", "low")
    /\ macros = MacrosPending

ExtIdle ==
    /\ ReactIdle
    /\ RtIdle
    /\ CoachIdle
    /\ InfoIdle
    /\ MacroIdle

PipelineIdle ==
    /\ handler = "none"
    /\ reply_msg = "none"
    /\ pc = "idle"
    /\ extracted = FALSE
    /\ food_list = <<>>
    /\ idx = 1
    /\ nutrients = PyNone
    /\ method = MethodNone
    /\ final_results = <<>>
    /\ calls = <<>>
    /\ tier1 = "pending"
    /\ tier2 = "pending"
    /\ ops_called = {}
    /\ exc = "none"
    /\ total = ZeroTotal
    /\ ret = RetPending

\* the nutrition log file as an earlier session left it: absent, or holding
\* a block
PriorLogs == {<<>>, <<ZeroTotal>>}

\* module initialisation of calnnutri.py: the credentials are read once
Init ==
    /\ has_client \in BOOLEAN
    /\ has_fatsecret \in BOOLEAN
    /\ PipelineIdle
    /\ log \in PriorLogs
    /\ log0 = log
    /\ CalcIdle
    /\ LlmIdle
    /\ ApiIdle
    /\ ExtIdle

\* ------------------------------------------------------------------------
\* process_pipeline: one lookup tier (search, detail fetch, normalise)
\* ------------------------------------------------------------------------
Call(op, arg) == [op |-> op, arg |-> arg]

OpsOf(cs) == {cs[i].op : i \in 1..Len(cs)}

TierOut(out, why, cs, res) == [out |-> out, why |-> why, calls |-> cs, res |-> res]

\* a search that is tried again in place
SearchAttempts_retry(term) == <<Call("search_food", term), Call("search_food", term)>>

\* lines 248 and 259: api.search_food is called once in a tier
SearchAttempts(term) == <<Call("search_food", term)>>

\* api.search_food(term); if search_res: api.get_food_details(food_id);
\* calculate_nutrients_from_api(details, weight)
LookupTier(term, data, details, weight) ==
    LET search_res == search_food(data)
        c1 == SearchAttempts(term)
        c2 == Append(c1, Call("get_food_details", "food_id"))
        result == calculate_nutrients_from_api(details, weight)
    IN  IF search_res.t = "raise" THEN TierOut("raise", "search_food", c1, CalcNone)
        ELSE IF ~SearchTruthy(search_res) THEN TierOut("none", "nomatch", c1, CalcNone)
        ELSE IF search_res.ref.kind = "noid" THEN TierOut("raise", "food_id", c1, CalcNone)
        ELSE IF result.t = "raise" THEN TierOut("raise", "calculate", c2, CalcNone)
        ELSE IF result.t = "None"
             THEN TierOut("none", IF details.kind = "None" THEN "nodetail" ELSE "null",
                          c2, CalcNone)
        ELSE TierOut("ok", "ok", c2, result)

\* the generic tier run unconditionally
NeedsGeneric_always(n) == TRUE

\* the generic tier guarded by the opposite test
NeedsGeneric_inverted(n) == Truthy(n)

\* line 257: if not nutrients
NeedsGeneric(n) == ~Truthy(n)

\* the estimation run unconditionally
NeedsEstimate_always(n) == TRUE

\* line 268: if not nutrients
NeedsEstimate(n) == ~Truthy(n)

\* nutrients.get('reason', '') inside the method string
ReasonOf(n) == IF n.d["reason"].t = "str" THEN n.d["reason"].s ELSE ""

\* a test that only catches a missing list
NoFoodFound_never(fl) == FALSE

\* line 304: if not food_list
NoFoodFound(fl) == Len(fl) = 0

\* line 309: if not FATSECRET_KEY or not FATSECRET_SECRET
CredentialsMissing == ~has_fatsecret

\* ------------------------------------------------------------------------
\* Actions
\* ------------------------------------------------------------------------
\* handle_meal_record up to record_nutrition's extraction call.  The ReAct
\* handler answers a blank description itself; main.py's handler prompts for
\* one and passes whatever was typed, and record_nutrition returns None at
\* once for blank input.
HandleMealRecord(h, blank) ==
    /\ pc = "idle"
    /\ handler' = h
    /\ IF h = "react" /\ blank
       THEN /\ reply_msg' = "param_missing"
            /\ pc' = "handled"
            /\ ret' = ret
       ELSE IF blank
       THEN /\ pc' = "rn_returned"
            /\ ret' = RetNone
            /\ reply_msg' = reply_msg
       ELSE /\ pc' = "extract"
            /\ UNCHANGED <<ret, reply_msg>>
    /\ UNCHANGED <<has_client, has_fatsecret, extracted, food_list, idx, nutrients,
                   method, final_results, calls, tier1, tier2, ops_called, exc, total, log, log0>>
    /\ UNCHANGED unit_vars

\* record_nutrition lines 301-317: extraction, the empty-list return, the
\* credential check, and entry into process_pipeline (whose loop body does
\* not run for an empty list).  food_list holds the elements the for loop of
\* line 236 visits in what the extractor returned.
Extract(reply) ==
    /\ pc = "extract"
    /\ LET fl == parse_user_input_to_food_list(has_client, reply).items
       IN  /\ food_list' = fl
           /\ extracted' = TRUE
           /\ IF NoFoodFound(fl) \/ CredentialsMissing
              THEN /\ pc' = "rn_returned"
                   /\ ret' = RetNone
              ELSE /\ pc' = IF Len(fl) > 0 THEN "tier1" ELSE "report"
                   /\ ret' = ret
    /\ UNCHANGED <<has_client, has_fatsecret, handler, reply_msg, idx, nutrients, method,
                   final_results, calls, tier1, tier2, ops_called, exc, total, log, log0>>
    /\ UNCHANGED unit_vars

\* process_pipeline lines 236-254: the keys of the element are read (an
\* element that is no mention raises), then the specific-name tier
TierSpecific(data, details) ==
    /\ pc = "tier1"
    /\ IF ~IsMention(food_list[idx])
       THEN /\ pc' = "rn_raised"
            /\ exc' = "mention"
            /\ UNCHANGED <<calls, ops_called, tier1, nutrients, method>>
       ELSE LET item == food_list[idx]
                o == LookupTier(item.search_term_specific, data, details, item.weight_g)
                n == IF o.out = "ok" THEN NutrientDict(o.res.n) ELSE PyNone
            IN  /\ calls' = o.calls
                /\ ops_called' = ops_called \cup OpsOf(o.calls)
                /\ tier1' = IF o.out = "raise" THEN "raise" ELSE o.why
                /\ nutrients' = n
                /\ method' = IF o.out = "ok"
                             THEN [tag |-> "API_specific",
                                   detail |-> o.res.s.serving_description]
                             ELSE MethodNone
                /\ exc' = IF o.out = "raise" THEN o.why ELSE exc
                /\ pc' = IF o.out = "raise" THEN "rn_raised"
                         ELSE IF NeedsGeneric(n) THEN "tier2"
                         ELSE IF NeedsEstimate(n) THEN "tier3"
                         ELSE "append"
    /\ UNCHANGED <<has_client, has_fatsecret, handler, reply_msg, extracted, food_list, idx,
                   final_results, tier2, total, ret, log, log0>>
    /\ UNCHANGED unit_vars

\* process_pipeline lines 257-265: the generic-name tier
TierGeneric(data, details) ==
    /\ pc = "tier2"
    /\ LET item == food_list[idx]
           o == LookupTier(item.search_term_generic, data, details, item.weight_g)
           n == IF o.out = "ok" THEN NutrientDict(o.res.n) ELSE nutrients
       IN  /\ calls' = calls \o o.calls
           /\ ops_called' = ops_called \cup OpsOf(o.calls)
           /\ tier2' = IF o.out = "raise" THEN "raise" ELSE o.why
           /\ nutrients' = n
           /\ method' = IF o.out = "ok"
                        THEN [tag |-> "API_generic", detail |-> item.search_term_generic]
                        ELSE method
           /\ exc' = IF o.out = "raise" THEN o.why ELSE exc
           /\ pc' = IF o.out = "raise" THEN "rn_raised"
                    ELSE IF NeedsEstimate(n) THEN "tier3"
                    ELSE "append"
    /\ UNCHANGED <<has_client, has_fatsecret, handler, reply_msg, extracted, food_list, idx,
                   final_results, tier1, total, ret, log, log0>>
    /\ UNCHANGED unit_vars

\* process_pipeline lines 268-271: the estimation tier; building the method
\* string calls .get on whatever the estimation returned
TierEstimate(reply) ==
    /\ pc = "tier3"
    /\ LET r == estimate_nutrients_with_llm(has_client, reply)
           n == r.v
       IN  /\ calls' = Append(calls, Call("estimate_nutrients_with_llm", food_list[idx].name_kr))
           /\ ops_called' = ops_called \cup {"estimate_nutrients_with_llm"}
           /\ nutrients' = IF r.t = "raise" THEN nutrients ELSE n
           /\ IF r.t = "raise"
              THEN /\ method' = method
                   /\ pc' = "rn_raised"
                   /\ exc' = "estimate"
              ELSE IF n.t = "dict"
              THEN /\ method' = [tag |-> "AI_estimate", detail |-> ReasonOf(n)]
                   /\ pc' = "append"
                   /\ exc' = exc
              ELSE /\ method' = method
                   /\ pc' = "rn_raised"
                   /\ exc' = "estimate_reason"
    /\ UNCHANGED <<has_client, has_fatsecret, handler, reply_msg, extracted, food_list, idx,
                   final_results, tier1, tier2, total, ret, log, log0>>
    /\ UNCHANGED unit_vars

\* process_pipeline lines 273-280: append the record, then the next mention
\* or the return
AppendResult ==
    /\ pc = "append"
    /\ final_results' = Append(final_results,
            [name |-> food_list[idx].name_kr, weight |-> food_list[idx].weight_g,
             nutrients |-> nutrients, note |-> method])
    /\ idx' = idx + 1
    /\ pc' = IF idx < Len(food_list) THEN "tier1" ELSE "report"
    /\ nutrients' = PyNone
    /\ method' = MethodNone
    /\ calls' = <<>>
    /\ tier1' = "pending"
    /\ tier2' = "pending"
    /\ UNCHANGED <<has_client, has_fatsecret, handler, reply_msg, extracted, food_list,
                   ops_called, exc, total, ret, log, log0>>
    /\ UNCHANGED unit_vars

\* record_nutrition line 330: the report line formats all six values of a
\* record with a float format; a missing key, null or a string raises
ReportLineRaises(r) == \E k \in NutrientKeys : r.nutrients.d[k].t # "num"

\* n.get(key, 0)
GetOrZero(n, k) == IF n.d[k].t = "missing" THEN RatZero ELSE n.d[k].r

\* lines 326-333: total[key] += n.get(key, 0) over the records
RECURSIVE SumResults(_, _)
SumResults(results, i) ==
    IF i > Len(results) THEN ZeroTotal
    ELSE LET rest == SumResults(results, i + 1)
         IN  [k \in NutrientKeys |-> RatAdd(GetOrZero(results[i].nutrients, k), rest[k])]

\* record_nutrition lines 319-343: the report and the totals
Report ==
    /\ pc = "report"
    /\ IF \E i \in 1..Len(final_results) : ReportLineRaises(final_results[i])
       THEN /\ pc' = "rn_raised"
            /\ exc' = "report"
            /\ total' = total
       ELSE /\ pc' = "log"
            /\ exc' = exc
            /\ total' = SumResults(final_results, 1)
    /\ UNCHANGED <<has_client, has_fatsecret, handler, reply_msg, extracted, food_list, idx,
                   nutrients, method, final_results, calls, tier1, tier2, ops_called, ret,
                   log, log0>>
    /\ UNCHANGED unit_vars

\* record_nutrition lines 345-374: append one block to the log (a failure to
\* write is caught) and return the totals
WriteLog(ok) ==
    /\ pc = "log"
    /\ log' = IF ok THEN Append(log, total) ELSE log
    /\ ret' = RetTotal(total)
    /\ pc' = "rn_returned"
    /\ UNCHANGED <<has_client, has_fatsecret, handler, reply_msg, extracted, food_list, idx,
                   nutrients, method, final_results, calls, tier1, tier2, ops_called, exc,
                   total, log0>>
    /\ UNCHANGED unit_vars

\* handle_meal_record after record_nutrition: main.py lines 152-156 and
\* main_react.py lines 76-84 report success unless an exception was caught
HandlerMessage(raised) == IF raised THEN "error" ELSE "recorded"

HandlerReturn ==
    /\ pc \in {"rn_returned", "rn_raised"}
    /\ reply_msg' = HandlerMessage(pc = "rn_raised")
    /\ pc' = "handled"
    /\ UNCHANGED <<has_client, has_fatsecret, handler, extracted, food_list, idx,
                   nutrients, method, final_results, calls, tier1, tier2, ops_called, exc,
                   total, ret, log, log0>>
    /\ UNCHANGED unit_vars

Next ==
    \/ \E h \in {"main", "react"}, blank \in BOOLEAN : HandleMealRecord(h, blank)
    \/ \E reply \in ExtractReplies : Extract(reply)
    \/ \E data \in PipelineResponses, details \in PipelineDocs : TierSpecific(data, details)
    \/ \E data \in PipelineResponses, details \in PipelineDocs : TierGeneric(data, details)
    \/ \E reply \in EstReplies : TierEstimate(reply)
    \/ AppendResult
    \/ Report
    \/ \E ok \in BOOLEAN : WriteLog(ok)
    \/ HandlerReturn

Spec == Init /\ [][Next]_vars

\* ------------------------------------------------------------------------
\* The normaliser on its own: every document and weight of the bounded sets
\* ------------------------------------------------------------------------
CalcInit ==
    /\ has_client = TRUE
    /\ has_fatsecret = TRUE
    /\ PipelineIdle
    /\ log = <<>>
    /\ log0 = <<>>
    /\ calc_doc \in CalcDocs
    /\ calc_w \in Weights
    /\ calc_out = CalcPending
    /\ LlmIdle
    /\ ApiIdle
    /\ ExtIdle

ApplyCalc ==
    /\ calc_out.t = "pending"
    /\ calc_out' = calculate_nutrients_from_api(calc_doc, calc_w)
    /\ UNCHANGED <<calc_doc, calc_w>>
    /\ UNCHANGED <<pipeline_vars, llm_vars, api_vars, ext_vars>>

CalcNext == ApplyCalc

CalcSpec == CalcInit /\ [][CalcNext]_vars

\* ------------------------------------------------------------------------
\* The two generative-text functions on their own: every outcome of the
\* chat completion, with and without a client
\* ------------------------------------------------------------------------
LlmInit ==
    /\ has_client \in BOOLEAN
    /\ has_fatsecret = TRUE
    /\ PipelineIdle
    /\ log = <<>>
    /\ log0 = <<>>
    /\ CalcIdle
    /\ ApiIdle
    /\ ExtIdle
    /\ est_reply \in EstReplies
    /\ est_out = EstPending
    /\ ext_reply \in ExtractReplies
    /\ ext_out = ExtPending

ApplyEstimate ==
    /\ est_out.t = "pending"
    /\ est_out' = estimate_nutrients_with_llm(has_client, est_reply)
    /\ UNCHANGED <<est_reply, ext_reply, ext_out>>
    /\ UNCHANGED <<pipeline_vars, calc_vars, api_vars, ext_vars>>

ApplyExtract ==
    /\ ext_out.t = "pending"
    /\ ext_out' = parse_user_input_to_food_list(has_client, ext_reply)
    /\ UNCHANGED <<est_reply, est_out, ext_reply>>
    /\ UNCHANGED <<pipeline_vars, calc_vars, api_vars, ext_vars>>

LlmNext == ApplyEstimate \/ ApplyExtract

LlmSpec == LlmInit /\ [][LlmNext]_vars

\* ------------------------------------------------------------------------
\* FatSecretAPI on its own: a client object serving a bounded number of
\* search_food and get_food_details calls while the clock advances
\* ------------------------------------------------------------------------
Queries == {"steamed rice", "rice"}
FoodIds == {1}

DetailOutcomes ==
    {HttpOutcome(k, DocNone) : k \in HttpFailures}
    \cup {HttpOutcome("json", d) :
             d \in {DocNoFood,
                    Doc("food", "single", <<Serving("g", Num(100), FullProfile, "100 g")>>)}}

ClientInit ==
    /\ has_client = TRUE
    /\ has_fatsecret = TRUE
    /\ PipelineIdle
    /\ log = <<>>
    /\ log0 = <<>>
    /\ CalcIdle
    /\ LlmIdle
    /\ ApiIdle
    /\ ExtIdle

\* time passes between requests
Tick ==
    /\ api_clock < MaxClock
    /\ api_clock' = api_clock + 1
    /\ UNCHANGED <<api_rand, api_requests, api_params, api_data, api_out>>
    /\ UNCHANGED <<pipeline_vars, calc_vars, llm_vars, ext_vars>>

\* search_food(query): lines 96-105, with _request and _sign_request
SearchFood(query, nonce, outcome) ==
    /\ api_requests < MaxRequests
    /\ api_requests' = api_requests + 1
    /\ api_rand' = nonce
    /\ api_params' = RequestParams("foods.search",
                                   [search_expression |-> query, max_results |-> 1],
                                   ConsumerKey, ConsumerSecret, nonce, api_clock)
    /\ api_data' = _request(outcome, ResponseNone)
    /\ api_out' = search_food(_request(outcome, ResponseNone))
    /\ UNCHANGED api_clock
    /\ UNCHANGED <<pipeline_vars, calc_vars, llm_vars, ext_vars>>

\* get_food_details(food_id): lines 109-110, with _request and _sign_request
GetFoodDetails(food_id, nonce, outcome) ==
    /\ api_requests < MaxRequests
    /\ api_requests' = api_requests + 1
    /\ api_rand' = nonce
    /\ api_params' = RequestParams("food.get.v2", [food_id |-> ToString(food_id)],
                                   ConsumerKey, ConsumerSecret, nonce, api_clock)
    /\ api_data' = _request(outcome, DocNone)
    /\ api_out' = DetailsReturned
    /\ UNCHANGED api_clock
    /\ UNCHANGED <<pipeline_vars, calc_vars, llm_vars, ext_vars>>

ClientNext ==
    \/ Tick
    \/ \E query \in Queries, nonce \in Nonces, outcome \in SearchOutcomes :
           SearchFood(query, nonce, outcome)
    \/ \E food_id \in FoodIds, nonce \in Nonces, outcome \in DetailOutcomes :
           GetFoodDetails(food_id, nonce, outcome)

ClientSpec == ClientInit /\ [][ClientNext]_vars

\* ------------------------------------------------------------------------
\* Properties of process_pipeline
\* ------------------------------------------------------------------------
\* the three ways a lookup tier ends without nutrients
NoData == {"nomatch", "nodetail", "null"}

\* the mention being resolved, while the loop is on one
OnMention == idx <= Len(food_list)

SearchedWith(term) == \E i \in 1..Len(calls) : calls[i] = Call("search_food", term)
GenericSearched == OnMention /\ SearchedWith(food_list[idx].search_term_generic)
SpecificSearched == OnMention /\ SearchedWith(food_list[idx].search_term_specific)
EstimateCalled == \E i \in 1..Len(calls) : calls[i].op = "estimate_nutrients_with_llm"

SixNumeric(n) == n.t = "dict" /\ \A k \in NutrientKeys : n.d[k].t = "num"

\* C1: when the specific-term search matches and its detail document
\* normalises, search_food is never called with the generic term, the
\* estimation is never called for that mention, and the record appended for
\* it carries the specific-lookup note.
C1_TierShortCircuit ==
    /\ [](tier1 = "ok" =>
            /\ ~GenericSearched
            /\ ~EstimateCalled
            /\ tier2 = "pending"
            /\ method.tag = "API_specific"
            /\ pc = "append")
    /\ [][(pc = "append" /\ tier1 = "ok") =>
            /\ Len(final_results') = Len(final_results) + 1
            /\ final_results'[Len(final_results')].note.tag = "API_specific"
            /\ SixNumeric(final_results'[Len(final_results')].nutrients)]_vars

C1_Witness ==
    /\ Len(final_results) = 1
    /\ final_results[1].note.tag = "API_specific"
    /\ pc = "tier1"

\* C2: when both lookups of a mention end without nutrients, a record is
\* emitted for it whose method is the estimated tag and whose nutrients hold
\* all six keys with numeric values, whatever the estimation call gives.
C2_EstimatedComplete ==
    (tier1 \in NoData /\ tier2 \in NoData /\ EstimateCalled) =>
        /\ pc = "append"
        /\ method.tag = "AI_estimate"
        /\ SixNumeric(nutrients)

\* C3: the generic lookup is attempted exactly when the specific tier ended
\* without nutrients, in each of its three no-data outcomes, and none of
\* them ends the run with an exception.
C3_GenericFallThrough ==
    /\ (tier1 \in NoData /\ ~GenericSearched) => (pc = "tier2" /\ exc = "none")
    /\ GenericSearched => (tier1 \in NoData /\ SpecificSearched)
    /\ (tier2 \in NoData /\ ~EstimateCalled) => (pc = "tier3" /\ exc = "none")

C3_Witness ==
    /\ tier1 = "null"
    /\ GenericSearched
    /\ tier2 = "nodetail"
    /\ pc = "tier3"

\* C4: the estimation is called only after the specific and then the generic
\* tier were attempted and both ended without nutrients; when the generic
\* tier yields nutrients there is no estimation call and the method is the
\* generic-lookup tag.
C4_EstimationLast ==
    /\ EstimateCalled =>
            /\ tier1 \in NoData
            /\ tier2 \in NoData
            /\ \A i \in 1..Len(calls) :
                   calls[i].op = "estimate_nutrients_with_llm" =>
                       \E j, k \in 1..(i - 1) :
                           /\ j < k
                           /\ calls[j] = Call("search_food", food_list[idx].search_term_specific)
                           /\ calls[k] = Call("search_food", food_list[idx].search_term_generic)
    /\ tier2 = "ok" =>
            /\ ~EstimateCalled
            /\ method.tag = "API_generic"
            /\ pc = "append"

C4_Witness ==
    /\ tier1 = "nomatch"
    /\ tier2 = "ok"
    /\ pc = "append"
    /\ SixNumeric(nutrients)

\* exception sites inside process_pipeline
PipelineExceptions ==
    {"mention", "search_food", "food_id", "calculate", "estimate", "estimate_reason"}

\* C5: process_pipeline returns, for every mention list, a list of the same
\* length whose i-th record carries the name and weight of the i-th mention.
C5_OneRecordPerMention ==
    /\ exc \notin PipelineExceptions
    /\ Len(final_results) <= Len(food_list)
    /\ \A i \in 1..Len(final_results) :
           /\ final_results[i].name = food_list[i].name_kr
           /\ final_results[i].weight = food_list[i].weight_g
    /\ pc \in {"report", "log"} => Len(final_results) = Len(food_list)

\* C6: when extraction yields an empty mention list, record_nutrition makes
\* no search, no detail fetch and no estimation call, writes nothing to the
\* log and returns None.
C6_ZeroMentionsStops ==
    (extracted /\ Len(food_list) = 0) =>
        /\ ops_called = {}
        /\ log = log0
        /\ pc \in {"rn_returned", "handled"}
        /\ ret = RetNone

C6_Witness ==
    /\ has_client
    /\ has_fatsecret
    /\ extracted
    /\ Len(food_list) = 0
    /\ Len(log) = 1
    /\ pc = "handled"

\* C7: when extraction yields no food mention, handle_meal_record neither
\* fails nor reports that the meal was recorded.
C7_NoFalseSuccess ==
    (extracted /\ Len(food_list) = 0 /\ pc = "handled") =>
        reply_msg \notin {"recorded", "error"}

\* ------------------------------------------------------------------------
\* Properties of calculate_nutrients_from_api
\* ------------------------------------------------------------------------
\* the serving list the normaliser scans for the document at hand
CalcServings == IF calc_doc.kind = "food" THEN calc_doc.servings ELSE <<>>

\* the value of a nutrient field, an absent field counting as 0
FieldValue(s, k) == IF s.nut[k].t = "num" THEN s.nut[k].v ELSE 0

\* gram-based with a reference mass above zero
EligibleByMass(s) == s.unit = "g" /\ s.amount.t = "num" /\ s.amount.v > 0

\* eligible by mass, and every nutrient field numeric or absent
Usable(s) == EligibleByMass(s) /\ \A k \in NutrientKeys : s.nut[k].t \in {"num", "absent"}

\* a gram record on which a conversion meets null before anything that
\* makes the scan skip the record
NullFirst(s) ==
    /\ s.unit = "g"
    /\ \/ s.amount.t = "null"
       \/ /\ EligibleByMass(s)
          /\ \E i \in 1..Len(NutrientOrder) :
                 /\ s.nut[NutrientOrder[i]].t = "null"
                 /\ \A j \in 1..(i - 1) : s.nut[NutrientOrder[j]].t \in {"num", "absent"}

\* C8: for a gram serving with reference mass m > 0 and user weight w, each
\* of the six returned values is the serving's value times w / m, an absent
\* field counting as 0; a document holding one such serving is normalised.
C8_ScalingLaw ==
    /\ calc_out.t = "ok" =>
           \A k \in NutrientKeys :
               calc_out.n[k].n * calc_out.s.amount.v
                   = FieldValue(calc_out.s, k) * calc_w * calc_out.n[k].d
    /\ (calc_out.t # "pending" /\ Len(CalcServings) = 1 /\ calc_doc.shape # "null"
            /\ Usable(CalcServings[1])) =>
           (calc_out.t = "ok" /\ calc_out.s = CalcServings[1])

C8_Witness ==
    /\ calc_doc = Doc("food", "list", <<Serving("g", Num(100), FullProfile, "100 g")>>)
    /\ calc_w = 250
    /\ calc_out.t = "ok"
    /\ calc_out.n["calories"] = [n |-> 500, d |-> 1]
    /\ calc_out.n["fat"] = [n |-> 25, d |-> 2]

\* C9 as stated: the serving used is the first record whose unit is "g" and
\* whose reference mass is above zero.
C9_FirstEligibleByMass ==
    calc_out.t = "ok" =>
        \E i \in 1..Len(CalcServings) :
            /\ calc_out.s = CalcServings[i]
            /\ EligibleByMass(CalcServings[i])
            /\ \A j \in 1..(i - 1) : ~EligibleByMass(CalcServings[j])

\* C9 as amended: whenever a serving is returned it is the first record whose
\* unit is "g", whose reference mass is above zero and whose nutrient fields
\* are all numeric or absent; a record before it is skipped when it carries
\* another unit, a mass of zero or below, or a non-numeric string as the
\* first value that fails to convert.
C9_FirstUsable ==
    /\ calc_out.t = "ok" =>
           \E i \in 1..Len(CalcServings) :
               /\ calc_out.s = CalcServings[i]
               /\ Usable(CalcServings[i])
               /\ \A j \in 1..(i - 1) : ~Usable(CalcServings[j])
    /\ (calc_out.t # "pending" /\ calc_doc.shape # "null") =>
           \A i \in 1..Len(CalcServings) :
               (/\ Usable(CalcServings[i])
                /\ \A j \in 1..(i - 1) :
                       ~Usable(CalcServings[j]) /\ ~NullFirst(CalcServings[j]))
                   => (calc_out.t = "ok" /\ calc_out.s = CalcServings[i])

C9_Witness ==
    /\ calc_doc = Doc("food", "list",
                      <<Serving("g", Num(100), BadCalProfile, "100 g"),
                        Serving("g", Num(40), CalOnlyProfile, "40 g")>>)
    /\ calc_out.t = "ok"
    /\ calc_out.s = Serving("g", Num(40), CalOnlyProfile, "40 g")

\* C10: the normaliser returns None exactly when the document is absent,
\* lacks 'food' or holds no gram serving with a reference mass above zero;
\* otherwise it returns the six nutrients with the serving used; it never
\* raises.
C10_NullIffNoEligible ==
    calc_out.t # "pending" =>
        /\ calc_out.t # "raise"
        /\ calc_out.t = "None" <=>
               ~\E i \in 1..Len(CalcServings) : EligibleByMass(CalcServings[i])
        /\ calc_out.t = "ok" =>
               \A k \in NutrientKeys : calc_out.n[k].d > 0

\* C11: for every serving object and user weight, a document whose 'serving'
\* field is the single object and a document whose 'serving' field is the
\* one-element list of that object are normalised to identical results.
C11_ShapeNormalization ==
    (/\ calc_out.t # "pending"
     /\ calc_doc.kind = "food"
     /\ calc_doc.shape \in {"single", "list"}
     /\ Len(calc_doc.servings) = 1) =>
        /\ calc_out = calculate_nutrients_from_api(
                          Doc("food", "single", calc_doc.servings), calc_w)
        /\ calc_out = calculate_nutrients_from_api(
                          Doc("food", "list", calc_doc.servings), calc_w)

C11_Witness ==
    /\ calc_doc = Doc("food", "single", <<Serving("g", Num(40), CalOnlyProfile, "40 g")>>)
    /\ calc_w = 100
    /\ calc_out.t = "ok"
    /\ calc_out.s = calc_doc.servings[1]
    /\ calc_out.n["calories"] = [n |-> 325, d |-> 1]

\* ------------------------------------------------------------------------
\* Properties of record_nutrition
\* ------------------------------------------------------------------------
\* the sum of one nutrient over the records, a field that is not a number
\* counting as 0
RECURSIVE SumOfField(_, _, _)
SumOfField(results, i, k) ==
    IF i > Len(results) THEN RatZero
    ELSE LET v == results[i].nutrients.d[k]
         IN  RatAdd(IF v.t = "num" THEN v.r ELSE RatZero, SumOfField(results, i + 1, k))

\* C12: record_nutrition computes the totals for every list of resolved
\* records without an error, a field missing from a record counting as 0,
\* and each of the six totals is the sum of that field over the records.
C12_TotalIsSum ==
    /\ exc # "report"
    /\ (pc = "log" \/ ret.t = "total") =>
           \A k \in NutrientKeys : total[k] = SumOfField(final_results, 1, k)

\* ------------------------------------------------------------------------
\* Properties of the generative-text functions
\* ------------------------------------------------------------------------
\* the chat completion gave nothing that parses as JSON
CallFailed(reply) == reply.kind \in {"raise", "nocontent", "notjson"}

\* C13: estimate_nutrients_with_llm returns a value for every outcome of the
\* chat completion; when the call fails, the text is no JSON or no client is
\* configured, the value holds all six nutrient keys at 0 and a reason
\* string.
C13_EstimationNeverRaises ==
    est_out.t # "pending" =>
        /\ est_out.t = "return"
        /\ (~has_client \/ CallFailed(est_reply)) =>
               /\ est_out.v.t = "dict"
               /\ \A k \in NutrientKeys : est_out.v.d[k] = VNum(RatZero)
               /\ est_out.v.d["reason"].t = "str"
               /\ est_out.v.d["reason"].s # ""

C13_Witness ==
    /\ has_client
    /\ est_reply.kind = "raise"
    /\ est_out.t = "return"
    /\ est_out.v.d["reason"] = VStr("estimation failed")
    /\ est_out.v.d["calories"] = VNum(RatZero)

\* C16: parse_user_input_to_food_list returns, for every outcome of the chat
\* completion, a list of mention objects, and the empty list when the call
\* fails or the text does not parse into such a list.
C16_ExtractorReturnsList ==
    ext_out.t # "pending" =>
        /\ ext_out.t = "list"
        /\ \A i \in 1..Len(ext_out.items) : IsMention(ext_out.items[i])
        /\ (~has_client \/ CallFailed(ext_reply)) => ext_out = ExtList(<<>>)

\* ------------------------------------------------------------------------
\* Properties of FatSecretAPI
\* ------------------------------------------------------------------------
\* the last request was a search
Searched == api_requests > 0 /\ api_params["method"] = "foods.search"

\* C14: for every outcome of the search request search_food raises nothing,
\* and it returns None when the request failed, the response lacks 'foods'
\* or the value of 'foods' is malformed.
C14_SearchNullByValue ==
    Searched =>
        /\ api_out.t # "raise"
        /\ api_data.kind \in {"None", "nofoods", "foods_null", "foods_list"} =>
               api_out = SearchNone

\* C15: search_food returns the same food reference for a 'food' field that
\* is a single object f and for one that is a list whose first element is
\* f, and None when the field is an empty list or absent.
C15_SearchShapeNormalization ==
    Searched =>
        /\ api_data.kind = "single" =>
               /\ api_out = SearchRef(api_data.food[1])
               /\ api_out = search_food(Response("list", api_data.food))
        /\ (api_data.kind = "list" /\ Len(api_data.food) > 0) =>
               /\ api_out = SearchRef(api_data.food[1])
               /\ api_out = search_food(Response("single", <<api_data.food[1]>>))
        /\ (api_data.kind = "nofood" \/ (api_data.kind = "list" /\ Len(api_data.food) = 0)) =>
               api_out = SearchNone

C15_Witness ==
    /\ Searched
    /\ api_data.kind = "list"
    /\ Len(api_data.food) = 2
    /\ api_data.food[1] = FoodRef("ref", 1)
    /\ api_data.food[2] = FoodRef("noid", 0)
    /\ api_out = SearchRef(FoodRef("ref", 1))

\* the parameters every request has to carry
RequiredParams ==
    {"oauth_consumer_key", "oauth_nonce", "oauth_signature_method", "oauth_timestamp",
     "oauth_version", "format", "oauth_signature"}

\* the parameters of the last request other than the signature
SentUnsigned ==
    [k \in DOMAIN api_params \ {"oauth_signature"} |-> api_params[k]]

\* C20: every request carries the consumer key, a nonce, the signature
\* method literal, a timestamp, the version literal, the format literal and
\* a signature; the signature is computed over exactly the parameters sent
\* other than the signature; the nonce is the value drawn for this request
\* and the timestamp the clock reading at this request.
C20_SignedRequest ==
    /\ [](api_requests > 0 =>
            /\ RequiredParams \subseteq DOMAIN api_params
            /\ api_params["oauth_consumer_key"] = ConsumerKey
            /\ api_params["oauth_signature_method"] = "HMAC-SHA1"
            /\ api_params["oauth_version"] = "1.0"
            /\ api_params["format"] = "json"
            /\ api_params["oauth_nonce"] = ToString(api_rand)
            /\ api_params["oauth_signature"].key = <<ConsumerSecret, "&">>
            /\ api_params["oauth_signature"].msg.params = SentUnsigned)
    /\ [][api_requests' # api_requests =>
            /\ api_params'["oauth_timestamp"] = ToString(api_clock)
            /\ api_params'["oauth_nonce"] = ToString(api_rand')]_vars

C20_Witness ==
    /\ api_requests = 2
    /\ api_params["method"] = "food.get.v2"
    /\ api_params["food_id"] = "1"
    /\ api_params["oauth_timestamp"] = "1"
    /\ api_params["oauth_nonce"] = "42"
    /\ "food_id" \in DOMAIN api_params["oauth_signature"].msg.params

\* ------------------------------------------------------------------------
\* Properties of the run as a whole
\* ------------------------------------------------------------------------
\* the extractor's chat completion was requested in this run
ExtractionCalled == extracted /\ has_client

\* C17: when a credential is missing (the composition source's key or
\* secret, or the generative-text key), record_nutrition makes no extraction
\* call, no lookup and no estimation call.
C17_NoPartialRun ==
    (~has_client \/ ~has_fatsecret) => (~ExtractionCalled /\ ops_called = {})

\* positions of the calls of an operation for the mention being resolved
CallsOf(op) == {i \in 1..Len(calls) : calls[i].op = op}

\* C18: while one mention is resolved there is at most one search and one
\* detail fetch per lookup tier, at most two of each in total, and at most
\* one estimation call; no search term is searched twice, and every detail
\* fetch directly follows the search of its tier.
C18_NoRetries ==
    /\ Cardinality(CallsOf("search_food")) <= 2
    /\ Cardinality(CallsOf("get_food_details")) <= 2
    /\ Cardinality(CallsOf("estimate_nutrients_with_llm")) <= 1
    /\ \A i, j \in CallsOf("search_food") : i # j => calls[i].arg # calls[j].arg
    /\ \A i \in CallsOf("get_food_details") : i > 1 /\ calls[i - 1].op = "search_food"
    /\ \A i \in CallsOf("estimate_nutrients_with_llm") : i = Len(calls)

C18_Witness ==
    /\ tier1 = "nodetail"
    /\ tier2 = "null"
    /\ Len(calls) = 5
    /\ calls[5].op = "estimate_nutrients_with_llm"
    /\ pc = "append"

\* C19: for a user weight of 0 or more, each of the six values the
\* normaliser returns is at least 0, whatever the selected serving's
\* nutrient fields hold.
C19_NonNegative ==
    (calc_out.t = "ok" /\ calc_w >= 0) => \A k \in NutrientKeys : calc_out.n[k].n >= 0

\* C21: nothing is carried from one mention to the next, and a mention whose
\* resolution fails keeps no other mention from being resolved and emitted:
\* when process_pipeline has ended, every other mention has its record.
C21_MentionIndependence ==
    /\ pc = "tier1" =>
           /\ nutrients = PyNone
           /\ method = MethodNone
           /\ calls = <<>>
           /\ tier1 = "pending"
           /\ tier2 = "pending"
    /\ exc \in PipelineExceptions => Len(final_results) = Len(food_list) - 1
    /\ pc \in {"report", "log"} => Len(final_results) = Len(food_list)

\* the run of record_nutrition has ended, by return or by exception
RunEnded == pc \in {"rn_returned", "rn_raised", "handled"} /\ handler # "none"

\* C22: the log's earlier content is kept; a call that returns early
\* appends nothing; a call that resolved at least one mention has appended
\* exactly one block of the six totals when it ends, unless writing failed,
\* in which case the totals are returned all the same.
C22_AppendOnlyLog ==
    /\ Len(log) >= Len(log0)
    /\ SubSeq(log, 1, Len(log0)) = log0
    /\ Len(log) <= Len(log0) + 1
    /\ ret = RetNone => log = log0
    /\ (RunEnded /\ Len(final_results) > 0) =>
           \/ log = Append(log0, [k \in NutrientKeys |-> SumOfField(final_results, 1, k)])
           \/ log = log0 /\ ret.t = "total"

\* ------------------------------------------------------------------------
\* run_react_agent_once (main_react.py): the ReAct loop
\* ------------------------------------------------------------------------
\* longest model output, in tokens
MaxTokens == 2

max_steps == 10

\* A model output is a sequence of tokens: the marker "Final Answer:",
\* an "Action:" line with the letters that follow it, white space, or any
\* other text (an "Action:" that no letters follow included).
Tok(k, name) == [k |-> k, name |-> name]
FinalTok == Tok("final", "")
SpaceTok == Tok("space", "")
TextTok == Tok("text", "")
ActionTok(name) == Tok("action", name)

TOOL_HANDLERS == {"profile_setup", "meal_record", "diet_recommend", "report"}

\* names an Action line can carry: a registered tool and an unregistered one
ActionNames == {"meal_record", "web_search"}

Tokens == {FinalTok, SpaceTok, TextTok} \cup {ActionTok(n) : n \in ActionNames}

LlmOutputs == SeqsUpTo(Tokens, MaxTokens)

\* position of the first "Final Answer:", 0 when there is none
RECURSIVE FirstFinalFrom(_, _)
FirstFinalFrom(out, i) ==
    IF i > Len(out) THEN 0
    ELSE IF out[i] = FinalTok THEN i
    ELSE FirstFinalFrom(out, i + 1)

\* "Final Answer:" in llm_output
ContainsFinal(out) == FirstFinalFrom(out, 1) # 0

\* str.strip()
RECURSIVE LStrip(_)
LStrip(s) ==
    IF s # <<>> /\ Head(s) = SpaceTok THEN LStrip(Tail(s)) ELSE s

RECURSIVE RStrip(_)
RStrip(s) ==
    IF s # <<>> /\ s[Len(s)] = SpaceTok THEN RStrip(SubSeq(s, 1, Len(s) - 1)) ELSE s

Strip(s) == RStrip(LStrip(s))

\* llm_output.split("Final Answer:", 1)[1].strip()
FinalText(out) ==
    Strip(SubSeq(out, FirstFinalFrom(out, 1) + 1, Len(out)))

\* re.search(r"Action:\s*([a-zA-Z_]+)", llm_output): the name of the first
\* Action line, "" when there is no match
RECURSIVE ActionMatchFrom(_, _)
ActionMatchFrom(out, i) ==
    IF i > Len(out) THEN ""
    ELSE IF out[i].k = "action" THEN out[i].name
    ELSE ActionMatchFrom(out, i + 1)

action_match(out) == ActionMatchFrom(out, 1)

\* what one pass of the loop body does with the model output
StepKind_actionFirst(out) ==
    IF action_match(out) # "" THEN "tool"
    ELSE IF ContainsFinal(out) THEN "final"
    ELSE "no_action"

StepKind(out) ==
    IF ContainsFinal(out) THEN "final"
    ELSE IF action_match(out) = "" THEN "no_action"
    ELSE "tool"

\* if step_count > max_steps
OverLimit_late(n) == n > max_steps + 1

OverLimit(n) == n > max_steps

\* what handler(params) does: returns a text, returns None, or raises
HandlerOutcomes == {"text", "None", "raise"}

\* except Exception around handler(params)
ToolCatches_none(outcome) == FALSE

ToolCatches(outcome) == TRUE

Observation(kind, text) == [kind |-> kind, text |-> text]

\* lines 287-296: the observation of a tool step, or "raised" when the
\* handler's exception leaves the loop
Observe(tool_name, outcome) ==
    IF tool_name \notin TOOL_HANDLERS THEN Observation("unknown_tool", tool_name)
    ELSE IF outcome = "raise"
         THEN IF ToolCatches(outcome) THEN Observation("tool_error", tool_name)
              ELSE Observation("raised", tool_name)
    ELSE Observation("result", outcome)

Message(role, kind) == [role |-> role, kind |-> kind]

ReturnValue(kind, text) == [kind |-> kind, text |-> text]

\* lines 233-242
ReactInit ==
    /\ has_client = TRUE
    /\ has_fatsecret = TRUE
    /\ PipelineIdle
    /\ log = <<>>
    /\ log0 = <<>>
    /\ CalcIdle
    /\ LlmIdle
    /\ ApiIdle
    /\ react_pc = "loop"
    /\ step_count = 0
    /\ messages = <<Message("system", "system_prompt"), Message("user", "user_input")>>
    /\ llm_output = <<>>
    /\ observation = NoObservation
    /\ react_ret = NoReturn
    /\ llm_calls = 0
    /\ tool_runs = 0
    /\ tool_outcome = "none"
    /\ RtIdle
    /\ CoachIdle
    /\ InfoIdle
    /\ MacroIdle

react_rest ==
    <<pipeline_vars, calc_vars, llm_vars, api_vars, rt_vars, coach_vars, info_vars, macro_vars>>

\* lines 245-248: the pass that finds the step limit exceeded
ForcedStop ==
    /\ react_pc = "loop"
    /\ OverLimit(step_count + 1)
    /\ step_count' = step_count + 1
    /\ react_pc' = "returned"
    /\ react_ret' = ReturnValue("forced", <<>>)
    /\ UNCHANGED <<messages, llm_output, observation, llm_calls, tool_runs, tool_outcome>>
    /\ UNCHANGED react_rest

\* lines 245-251: agent_llm returns the model output
CallLlm(out) ==
    /\ react_pc = "loop"
    /\ ~OverLimit(step_count + 1)
    /\ step_count' = step_count + 1
    /\ llm_calls' = llm_calls + 1
    /\ llm_output' = out
    /\ react_pc' = "called"
    /\ UNCHANGED <<messages, observation, react_ret, tool_runs, tool_outcome>>
    /\ UNCHANGED react_rest

\* lines 245-251: agent_llm raises, outside any try
LlmRaises ==
    /\ react_pc = "loop"
    /\ ~OverLimit(step_count + 1)
    /\ step_count' = step_count + 1
    /\ llm_calls' = llm_calls + 1
    /\ react_pc' = "raised"
    /\ react_ret' = ReturnValue("raised_agent_llm", <<>>)
    /\ UNCHANGED <<messages, llm_output, observation, tool_runs, tool_outcome>>
    /\ UNCHANGED react_rest

\* lines 256-260: the output is taken as the final answer
FinalAnswer ==
    /\ react_pc = "called"
    /\ StepKind(llm_output) = "final"
    /\ react_pc' = "returned"
    /\ react_ret' = ReturnValue("final", FinalText(llm_output))
    /\ UNCHANGED <<step_count, messages, llm_output, observation, llm_calls, tool_runs,
                   tool_outcome>>
    /\ UNCHANGED react_rest

\* lines 263-270: the output has no Action
NoAction ==
    /\ react_pc = "called"
    /\ StepKind(llm_output) = "no_action"
    /\ react_pc' = "returned"
    /\ react_ret' = ReturnValue("no_action", llm_output)
    /\ UNCHANGED <<step_count, messages, llm_output, observation, llm_calls, tool_runs,
                   tool_outcome>>
    /\ UNCHANGED react_rest

\* lines 263-305: the tool is executed and the pass ends.  The params dict
\* only reaches the handler, whose outcome is free here.
ToolStep(outcome) ==
    /\ react_pc = "called"
    /\ StepKind(llm_output) = "tool"
    /\ IF action_match(llm_output) \in TOOL_HANDLERS
       THEN /\ tool_runs' = tool_runs + 1
            /\ tool_outcome' = outcome
       ELSE UNCHANGED <<tool_runs, tool_outcome>>
    /\ LET obs == Observe(action_match(llm_output), outcome)
       IN  IF obs.kind = "raised"
           THEN /\ react_pc' = "raised"
                /\ react_ret' = ReturnValue("raised_handler", <<>>)
                /\ UNCHANGED <<observation, messages>>
           ELSE /\ react_pc' = "loop"
                /\ observation' = obs
                /\ messages' = messages \o <<Message("assistant", "llm_output"),
                                            Message("assistant", "observation")>>
                /\ UNCHANGED react_ret
    /\ UNCHANGED <<step_count, llm_output, llm_calls>>
    /\ UNCHANGED react_rest

ReactNext ==
    \/ ForcedStop
    \/ LlmRaises
    \/ \E out \in LlmOutputs : CallLlm(out)
    \/ FinalAnswer
    \/ NoAction
    \/ \E outcome \in HandlerOutcomes : ToolStep(outcome)

ReactSpec == ReactInit /\ [][ReactNext]_vars

\* the loop is sequential code: a pass that can run does run, given that
\* the model call and the handler return
ReactFairSpec == ReactSpec /\ WF_vars(ReactNext)

\* the run has ended, by return or by exception
ReactEnded == react_pc \in {"returned", "raised"}

IsStripOf(t, s) ==
    \E a \in 0..Len(s), b \in 0..Len(s) :
        /\ a + b <= Len(s)
        /\ t = SubSeq(s, a + 1, Len(s) - b)
        /\ \A i \in 1..a : s[i] = SpaceTok
        /\ \A i \in (Len(s) - b + 1)..Len(s) : s[i] = SpaceTok
        /\ t # <<>> => (t[1] # SpaceTok /\ t[Len(t)] # SpaceTok)

\* what follows the first "Final Answer:" of the output
AfterFirstFinal(out) ==
    LET i == CHOOSE k \in 1..Len(out) :
                 out[k] = FinalTok /\ \A j \in 1..(k - 1) : out[j] # FinalTok
    IN  SubSeq(out, i + 1, Len(out))

HasFinal(out) == \E k \in 1..Len(out) : out[k] = FinalTok
HasAction(out) == \E k \in 1..Len(out) : out[k].k = "action"

\* C24: a model output that contains "Final Answer:" ends the loop in that
\* pass: no handler is executed, with or without an Action line in the
\* output, nothing is appended to the messages, and the text after the
\* first "Final Answer:" is returned.
C24_FinalAnswerPrecedence ==
    [][(react_pc = "called" /\ HasFinal(llm_output)) =>
           /\ tool_runs' = tool_runs
           /\ messages' = messages
           /\ react_pc' = "returned"
           /\ react_ret'.kind = "final"
           /\ IsStripOf(react_ret'.text, AfterFirstFinal(llm_output))]_vars

C24_Witness ==
    /\ react_pc = "returned"
    /\ react_ret.kind = "final"
    /\ HasAction(llm_output)
    /\ react_ret.text # <<>>

\* the name the pass takes from the output: that of the first Action line
FirstActionName(out) ==
    LET i == CHOOSE k \in 1..Len(out) :
                 out[k].k = "action" /\ \A j \in 1..(k - 1) : out[j].k # "action"
    IN  out[i].name

\* C25: a pass that names an unregistered tool executes no handler and
\* observes "Unknown tool"; a pass whose handler raises observes "Tool
\* Error"; either way the output and the observation are appended to the
\* messages, two messages for the pass, and the loop goes on to the next
\* model call.
C25_ToolFailuresContinue ==
    [][(react_pc = "called" /\ ~HasFinal(llm_output) /\ HasAction(llm_output)) =>
           /\ react_pc' = "loop"
           /\ messages' = messages \o <<Message("assistant", "llm_output"),
                                       Message("assistant", "observation")>>
           /\ FirstActionName(llm_output) \notin TOOL_HANDLERS =>
                  /\ tool_runs' = tool_runs
                  /\ observation' = Observation("unknown_tool", FirstActionName(llm_output))
           /\ FirstActionName(llm_output) \in TOOL_HANDLERS =>
                  /\ tool_runs' = tool_runs + 1
                  /\ tool_outcome' = "raise" => observation'.kind = "tool_error"
                  /\ tool_outcome' # "raise" => observation' = Observation("result", tool_outcome')
      ]_vars

C25_Witness ==
    /\ react_pc = "loop"
    /\ observation.kind = "tool_error"
    /\ tool_outcome = "raise"
    /\ Len(messages) = 6
    /\ llm_calls = 2
    /\ tool_runs = 1

\* ------------------------------------------------------------------------
\* The nutrition log: the block record_nutrition writes (calnnutri.py) and
\* the two parsers that read it back (reporter.py, diet_agent.py)
\* ------------------------------------------------------------------------
\* largest total written, in thousands
MaxThousands == 1

\* Amounts are kept in tenths, the precision of the log; texts are
\* sequences of characters.
DigitChars == <<"0", "1", "2", "3", "4", "5", "6", "7", "8", "9">>
DigitChar(d) == DigitChars[d + 1]
IsDigit(c) == \E d \in 0..9 : DigitChar(d) = c
DigitVal(c) == CHOOSE d \in 0..9 : DigitChar(d) = c

RECURSIVE DigitsOf(_)
DigitsOf(n) ==
    IF n < 10 THEN <<DigitChar(n)>>
    ELSE Append(DigitsOf(n \div 10), DigitChar(n % 10))

\* the "," option of the format specification: groups of three digits
RECURSIVE WithCommas(_)
WithCommas(digits) ==
    IF Len(digits) <= 3 THEN digits
    ELSE WithCommas(SubSeq(digits, 1, Len(digits) - 3))
             \o <<",">> \o SubSeq(digits, Len(digits) - 2, Len(digits))

\* f"{x:,.1f}" of x = tenths / 10
Format_1f(tenths) ==
    WithCommas(DigitsOf(tenths \div 10)) \o <<".", DigitChar(tenths % 10)>>

\* rounding of tenths to a whole number, ties to even
RoundHalfEven(tenths) ==
    LET q == tenths \div 10
        r == tenths % 10
    IN  IF r > 5 \/ (r = 5 /\ q % 2 = 1) THEN q + 1 ELSE q

\* f"{x:,.0f}"
Format_0f(tenths) == WithCommas(DigitsOf(RoundHalfEven(tenths)))

\* lines 355-361: the text after the label of each of the six lines
LogLines(tot) ==
    [k \in NutrientKeys |-> IF k = "sodium" THEN Format_0f(tot[k]) ELSE Format_1f(tot[k])]

LogBlock(date, tot) == [date |-> date, lines |-> LogLines(tot)]

\* the group of a regex of the form label\s*:\s*([...]+) : the longest
\* run of allowed characters at the start of the text, <<>> for no match
RECURSIVE Capture(_, _)
Capture(text, allowed) ==
    IF text = <<>> \/ Head(text) \notin allowed THEN <<>>
    ELSE <<Head(text)>> \o Capture(Tail(text), allowed)

DigitsAndDot == {DigitChar(d) : d \in 0..9} \cup {"."}
DigitsDotComma == DigitsAndDot \cup {","}

\* CAL_RE .. SODIUM_RE of reporter.py: only SODIUM_RE admits the comma
ReporterClass(k) == IF k = "sodium" THEN DigitsDotComma ELSE DigitsAndDot

\* text.replace(",", "")
RECURSIVE RemoveCommas(_)
RemoveCommas(text) ==
    IF text = <<>> THEN <<>>
    ELSE IF Head(text) = "," THEN RemoveCommas(Tail(text))
    ELSE <<Head(text)>> \o RemoveCommas(Tail(text))

RECURSIVE CountDots(_)
CountDots(text) ==
    IF text = <<>> THEN 0
    ELSE (IF Head(text) = "." THEN 1 ELSE 0) + CountDots(Tail(text))

RECURSIVE NatOf(_)
NatOf(digits) ==
    IF digits = <<>> THEN 0
    ELSE NatOf(SubSeq(digits, 1, Len(digits) - 1)) * 10 + DigitVal(digits[Len(digits)])

\* float(text) accepts digits with at most one dot and at least one digit
FloatAccepts(text) ==
    /\ \A i \in 1..Len(text) : IsDigit(text[i]) \/ text[i] = "."
    /\ CountDots(text) <= 1
    /\ \E i \in 1..Len(text) : IsDigit(text[i])

\* float(text), in tenths, for a text float accepts
FloatOfText(text) ==
    LET whole == Capture(text, {DigitChar(d) : d \in 0..9})
        rest == SubSeq(text, Len(whole) + 1, Len(text))
        frac == IF Len(rest) >= 2 THEN DigitVal(rest[2]) ELSE 0
    IN  NatOf(whole) * 10 + frac

\* reporter._parse_float_safe
_parse_float_safe(text) ==
    LET stripped == RemoveCommas(text)
    IN  IF FloatAccepts(stripped) THEN FloatOfText(stripped) ELSE 0

\* what reporter's loop puts into temp_block for one block: a line whose
\* regex does not match leaves its key out, which adds nothing
ReporterBlock(block) ==
    [k \in NutrientKeys |->
        LET g == Capture(block.lines[k], ReporterClass(k))
        IN  IF g = <<>> THEN 0 ELSE _parse_float_safe(g)]

RECURSIVE SumBlocks(_, _, _, _)
SumBlocks(blocks, i, date, k) ==
    IF i > Len(blocks) THEN 0
    ELSE (IF blocks[i].date = date THEN ReporterBlock(blocks[i])[k] ELSE 0)
             + SumBlocks(blocks, i + 1, date, k)

DatesOf(blocks) == {blocks[i].date : i \in 1..Len(blocks)}

\* reporter.parse_nutrition_file: the totals of each date of the file
parse_nutrition_file(blocks) ==
    [t |-> "returned",
     days |-> [d \in DatesOf(blocks) |->
                  [k \in NutrientKeys |-> SumBlocks(blocks, 1, d, k)]]]

\* one line of diet_agent's loop: float(m.group(1)), or nothing
IntakeLine(text) ==
    LET g == Capture(text, DigitsAndDot)
    IN  IF g = <<>> THEN 0 ELSE FloatOfText(g)

RECURSIVE SumIntake(_, _, _, _)
SumIntake(blocks, i, date, k) ==
    IF i > Len(blocks) THEN 0
    ELSE (IF blocks[i].date = date THEN IntakeLine(blocks[i].lines[k]) ELSE 0)
             + SumIntake(blocks, i + 1, date, k)

\* diet_agent.parse_nutrition_log(path, date)
parse_nutrition_log(blocks, date) ==
    [t |-> "returned", date |-> date,
     kcal |-> SumIntake(blocks, 1, date, "calories"),
     carb_g |-> SumIntake(blocks, 1, date, "carbohydrate"),
     protein_g |-> SumIntake(blocks, 1, date, "protein"),
     fat_g |-> SumIntake(blocks, 1, date, "fat")]

\* the totals of a meal, in tenths: below and above the first thousands
\* separator
LoggedAmounts == {th * 10000 + r : th \in 0..MaxThousands, r \in {5, 9999}}

LogDates == {1, 2}

MealTotals ==
    {[k \in NutrientKeys |-> IF k \in {"sugar", "sodium"} THEN s ELSE f[k]] :
        f \in [{"calories", "carbohydrate", "protein", "fat"} -> LoggedAmounts],
        s \in {5, 13885}}

rt_rest ==
    <<pipeline_vars, calc_vars, llm_vars, api_vars, react_vars, coach_vars, info_vars,
      macro_vars>>

RtInit ==
    /\ has_client = TRUE
    /\ has_fatsecret = TRUE
    /\ PipelineIdle
    /\ log = <<>>
    /\ log0 = <<>>
    /\ CalcIdle
    /\ LlmIdle
    /\ ApiIdle
    /\ ReactIdle
    /\ CoachIdle
    /\ InfoIdle
    /\ MacroIdle
    /\ rt_total \in MealTotals
    /\ rt_date \in LogDates
    /\ nutrition_txt = <<>>
    /\ rt_report = ReportPending
    /\ rt_intake = IntakePending

\* record_nutrition lines 345-369: the block is appended to the file
AppendBlock ==
    /\ nutrition_txt = <<>>
    /\ nutrition_txt' = Append(nutrition_txt, LogBlock(rt_date, rt_total))
    /\ UNCHANGED <<rt_total, rt_date, rt_report, rt_intake>>
    /\ UNCHANGED rt_rest

ParseNutritionFile ==
    /\ nutrition_txt # <<>>
    /\ rt_report = ReportPending
    /\ rt_report' = parse_nutrition_file(nutrition_txt)
    /\ UNCHANGED <<rt_total, rt_date, nutrition_txt, rt_intake>>
    /\ UNCHANGED rt_rest

ParseNutritionLog(date) ==
    /\ nutrition_txt # <<>>
    /\ rt_intake = IntakePending
    /\ rt_intake' = parse_nutrition_log(nutrition_txt, date)
    /\ UNCHANGED <<rt_total, rt_date, nutrition_txt, rt_report>>
    /\ UNCHANGED rt_rest

RtNext ==
    \/ AppendBlock
    \/ ParseNutritionFile
    \/ \E date \in LogDates : ParseNutritionLog(date)

RtSpec == RtInit /\ [][RtNext]_vars

RoundTripKeys == {"calories", "carbohydrate", "protein", "fat"}

\* C26: what the two parsers read back from a block is what was written,
\* for calories, carbohydrate, protein and fat, totals of 1000 and more
\* included.
C26_LogRoundTrip ==
    /\ rt_report.t = "returned" =>
           \A k \in RoundTripKeys : rt_report.days[rt_date][k] = rt_total[k]
    /\ (rt_intake.t = "returned" /\ rt_intake.date = rt_date) =>
           /\ rt_intake.kcal = rt_total["calories"]
           /\ rt_intake.carb_g = rt_total["carbohydrate"]
           /\ rt_intake.protein_g = rt_total["protein"]
           /\ rt_intake.fat_g = rt_total["fat"]

\* ------------------------------------------------------------------------
\* coach.py: the meal log, the first-run metadata and the weekly report
\* ------------------------------------------------------------------------
\* days the clock covers
MaxDays == 8
\* calls of append_meal_log in a session
MaxMeals == 2

\* Times are whole ticks, as isoformat(timespec="seconds") keeps whole
\* seconds; a day has TicksPerDay of them.
TicksPerDay == 2
WeekDays == 7

MaxTick == MaxDays * TicksPerDay - 1

\* datetime.date()
DateOf(ts) == ts \div TicksPerDay

\* ts + timedelta(days=n)
PlusDays(ts, n) == ts + n * TicksPerDay

\* lines 59-64: the line of one meal
LogItem(now, calories) == [timestamp |-> now, date |-> DateOf(now), calories |-> calories]

\* total["calories"] of the meals a user logs
MealCalories == {0, 500}

InitialMeta ==
    {MetaAbsent, Meta("empty", 0), Meta("unreadable", 0), Meta("no_first_run", 0),
     Meta("bad_first_run", 0), Meta("valid", 0)}

\* lines 74-86: need_write
NeedWrite_always(meta) == TRUE

NeedWrite(meta) == meta.t \in {"absent", "empty", "unreadable", "no_first_run"}

\* lines 72-90
_ensure_first_run_metadata(meta, now) ==
    IF NeedWrite(meta) THEN Meta("valid", now) ELSE meta

\* lines 284-292: the first-run time, "None", or "raise" where json.load
\* fails outside the try
_load_first_run_time(meta) ==
    IF meta.t = "absent" THEN [t |-> "None", ts |-> 0]
    ELSE IF meta.t \in {"empty", "unreadable"} THEN [t |-> "raise", ts |-> 0]
    ELSE IF meta.t = "valid" THEN [t |-> "time", ts |-> meta.first_run]
    ELSE [t |-> "None", ts |-> 0]

\* summarize_day(ds, logs)["total"]["calories"]
RECURSIVE DayCalories(_, _, _)
DayCalories(logs, i, date) ==
    IF i > Len(logs) THEN 0
    ELSE (IF logs[i].date = date THEN logs[i].calories ELSE 0)
             + DayCalories(logs, i + 1, date)

\* lines 310-311
WindowEnd(first_run) == DateOf(PlusDays(first_run, WeekDays))

\* lines 314-321: the dates of day_summaries
SummarizedDates(first_run, logs) ==
    {d \in DateOf(first_run)..WindowEnd(first_run) : DayCalories(logs, 1, d) > 0}

\* lines 295-369; llm_ok: the chat completion returns
generate_weekly_report_if_due(meta, now, logs, llm_ok) ==
    LET first_run == _load_first_run_time(meta)
    IN  IF first_run.t = "raise" THEN [t |-> "raise", dates |-> {}]
        ELSE IF first_run.t = "None" THEN [t |-> "None", dates |-> {}]
        ELSE IF now < PlusDays(first_run.ts, WeekDays) THEN [t |-> "None", dates |-> {}]
        ELSE IF SummarizedDates(first_run.ts, logs) = {} THEN [t |-> "None", dates |-> {}]
        ELSE IF ~llm_ok THEN [t |-> "raise", dates |-> SummarizedDates(first_run.ts, logs)]
        ELSE [t |-> "report", dates |-> SummarizedDates(first_run.ts, logs)]

coach_rest ==
    <<pipeline_vars, calc_vars, llm_vars, api_vars, react_vars, rt_vars, info_vars, macro_vars>>

CoachInit ==
    /\ has_client = TRUE
    /\ has_fatsecret = TRUE
    /\ PipelineIdle
    /\ log = <<>>
    /\ log0 = <<>>
    /\ CalcIdle
    /\ LlmIdle
    /\ ApiIdle
    /\ ReactIdle
    /\ RtIdle
    /\ InfoIdle
    /\ MacroIdle
    /\ coach_clock = 0
    /\ metadata_json \in InitialMeta
    /\ meta0 = metadata_json
    /\ log_txt = <<>>
    /\ weekly_out = WeeklyPending
    /\ first_call = -1

\* time passes
CoachTick ==
    /\ weekly_out = WeeklyPending
    /\ coach_clock < MaxTick
    /\ coach_clock' = coach_clock + 1
    /\ UNCHANGED <<metadata_json, log_txt, weekly_out, meta0, first_call>>
    /\ UNCHANGED coach_rest

\* append_meal_log(meal_type, total_nutrients): lines 43-69
AppendMealLog(calories) ==
    /\ weekly_out = WeeklyPending
    /\ Len(log_txt) < MaxMeals
    /\ log_txt' = Append(log_txt, LogItem(coach_clock, calories))
    /\ metadata_json' = _ensure_first_run_metadata(metadata_json, coach_clock)
    /\ first_call' = IF first_call = -1 THEN coach_clock ELSE first_call
    /\ UNCHANGED <<coach_clock, weekly_out, meta0>>
    /\ UNCHANGED coach_rest

\* generate_weekly_report_if_due(): lines 295-369
GenerateWeeklyReport(llm_ok) ==
    /\ weekly_out = WeeklyPending
    /\ weekly_out' = generate_weekly_report_if_due(metadata_json, coach_clock, log_txt, llm_ok)
    /\ UNCHANGED <<coach_clock, metadata_json, log_txt, meta0, first_call>>
    /\ UNCHANGED coach_rest

CoachNext ==
    \/ CoachTick
    \/ \E calories \in MealCalories : AppendMealLog(calories)
    \/ \E llm_ok \in BOOLEAN : GenerateWeeklyReport(llm_ok)

CoachSpec == CoachInit /\ [][CoachNext]_vars

\* metadata.json holds no first_run: absent, empty, unreadable or without
\* the value
NoFirstRun(meta) == meta.t \in {"absent", "empty", "unreadable", "no_first_run"}

\* C27: first_run is the time of the first call that found none; a stored
\* first_run is never overwritten; every call appends exactly one line to
\* log.txt and touches no earlier line.
C27_FirstRunWrittenOnce ==
    /\ [](/\ (first_call # -1 /\ NoFirstRun(meta0)) =>
                 metadata_json = Meta("valid", first_call)
          /\ ~NoFirstRun(meta0) => metadata_json = meta0)
    /\ [][/\ metadata_json.t = "valid" => metadata_json' = metadata_json
          /\ first_call' # first_call \/ log_txt' # log_txt =>
                 /\ Len(log_txt') = Len(log_txt) + 1
                 /\ SubSeq(log_txt', 1, Len(log_txt)) = log_txt
                 /\ log_txt'[Len(log_txt')].timestamp = coach_clock]_vars

C27_Witness ==
    /\ Len(log_txt) = 2
    /\ log_txt[2].timestamp > log_txt[1].timestamp
    /\ NoFirstRun(meta0)
    /\ metadata_json = Meta("valid", log_txt[1].timestamp)

\* C28: no report before 7 days have passed since first_run, or without a
\* first_run; a report summarizes only dates among the 7 calendar dates
\* that start at the first-run date.
C28_WeeklyWindow ==
    /\ (weekly_out.t # "pending"
        /\ (metadata_json.t # "valid"
            \/ coach_clock < metadata_json.first_run + WeekDays * TicksPerDay)) =>
           weekly_out.t = "None"
    /\ weekly_out.t = "report" =>
           /\ \A d \in weekly_out.dates :
                  /\ d >= metadata_json.first_run \div TicksPerDay
                  /\ d <= metadata_json.first_run \div TicksPerDay + WeekDays - 1
           /\ Cardinality(weekly_out.dates) <= WeekDays

\* ------------------------------------------------------------------------
\* app.py: POST /api/info, requests served concurrently
\* ------------------------------------------------------------------------
\* requests in flight at once
MaxProcs == 2

Procs == 1..MaxProcs

\* the key each request sets: the requests' keys are disjoint
InfoKeys == <<"age", "weight_kg", "goal", "height_cm">>
NewValues == {31, 32}

NoKeys == <<>>
Dict1(k, v) == [x \in {k} |-> v]

\* dict.update
Update(d, more) ==
    [k \in DOMAIN d \cup DOMAIN more |-> IF k \in DOMAIN more THEN more[k] ELSE d[k]]

\* lines 22-32: {} when the file is missing or json.load fails
read_json_file(file) == IF file.t = "json" THEN file.data ELSE NoKeys

InitialProfiles == {FileAbsent, File("json", NoKeys), File("json", Dict1("age", 30))}

info_rest ==
    <<pipeline_vars, calc_vars, llm_vars, api_vars, react_vars, rt_vars, coach_vars, macro_vars>>

InfoInit ==
    /\ has_client = TRUE
    /\ has_fatsecret = TRUE
    /\ PipelineIdle
    /\ log = <<>>
    /\ log0 = <<>>
    /\ CalcIdle
    /\ LlmIdle
    /\ ApiIdle
    /\ ReactIdle
    /\ RtIdle
    /\ CoachIdle
    /\ MacroIdle
    /\ private_json \in InitialProfiles
    /\ info_pc = [p \in Procs |-> "start"]
    /\ new_data \in {[p \in Procs |-> Dict1(InfoKeys[p], f[p])] : f \in [Procs -> NewValues]}
    /\ current_data = [p \in Procs |-> NoKeys]
    /\ info_resp = [p \in Procs |-> "none"]

\* lines 89-93: the file is read and the request's data merged into it
ReadAndMerge(p) ==
    /\ info_pc[p] = "start"
    /\ current_data' = [current_data EXCEPT ![p] = Update(read_json_file(private_json),
                                                         new_data[p])]
    /\ info_pc' = [info_pc EXCEPT ![p] = "merged"]
    /\ UNCHANGED <<private_json, new_data, info_resp>>
    /\ UNCHANGED info_rest

\* line 38: open(path, 'w') truncates the file
OpenForWrite(p) ==
    /\ info_pc[p] = "merged"
    /\ private_json' = File("empty", <<>>)
    /\ info_pc' = [info_pc EXCEPT ![p] = "opened"]
    /\ UNCHANGED <<new_data, current_data, info_resp>>
    /\ UNCHANGED info_rest

\* lines 36-43, 97-98: open fails, save_json_file returns False
SaveFails(p) ==
    /\ info_pc[p] = "merged"
    /\ info_pc' = [info_pc EXCEPT ![p] = "done"]
    /\ info_resp' = [info_resp EXCEPT ![p] = "error"]
    /\ UNCHANGED <<private_json, new_data, current_data>>
    /\ UNCHANGED info_rest

\* lines 39-40, 95-96: json.dump writes the merged dict and the request
\* answers success
DumpAndReturn(p) ==
    /\ info_pc[p] = "opened"
    /\ private_json' = File("json", current_data[p])
    /\ info_pc' = [info_pc EXCEPT ![p] = "done"]
    /\ info_resp' = [info_resp EXCEPT ![p] = "success"]
    /\ UNCHANGED <<new_data, current_data>>
    /\ UNCHANGED info_rest

InfoNext ==
    \E p \in Procs :
        \/ ReadAndMerge(p)
        \/ OpenForWrite(p)
        \/ SaveFails(p)
        \/ DumpAndReturn(p)

InfoSpec == InfoInit /\ [][InfoNext]_vars

\* the file holds every key the dict sets, with its value
Holds(file, d) ==
    /\ file.t = "json"
    /\ \A k \in DOMAIN d : k \in DOMAIN file.data /\ file.data[k] = d[k]

\* C29: once all the concurrent requests have answered success, the file
\* holds the update of each of them.
C29_NoLostUpdate ==
    (\A p \in Procs : info_resp[p] = "success") =>
        \A p \in Procs : Holds(private_json, new_data[p])

\* ------------------------------------------------------------------------
\* bmrcal.py: BMR, TDEE, calorie target and macro targets
\* ------------------------------------------------------------------------
RatInt(i) == [n |-> i, d |-> 1]
RatNeg(x) == [n |-> -x.n, d |-> x.d]
RatSub(x, y) == RatAdd(x, RatNeg(y))
RatDiv(x, y) == IF y.n > 0 THEN Rat(x.n * y.d, x.d * y.n) ELSE Rat(-(x.n * y.d), x.d * (-y.n))
RatLt(x, y) == x.n * y.d < y.n * x.d
RatMaxOf(x, y) == IF RatLt(x, y) THEN y ELSE x

\* round(x), ties to even
RoundRat(x) ==
    LET q == x.n \div x.d
        r == x.n - q * x.d
    IN  IF 2 * r > x.d \/ (2 * r = x.d /\ q % 2 = 1) THEN q + 1 ELSE q

\* round(x, 1)
RoundRat1(x) == Rat(RoundRat(RatMul(x, RatInt(10))), 10)

\* lines 61-67
ACTIVITY_FACTORS ==
    [sedentary |-> Rat(12, 10), light |-> Rat(1375, 1000), moderate |-> Rat(155, 100),
     active |-> Rat(1725, 1000), very_active |-> Rat(19, 10)]

\* lines 69-73
PROTEIN_PER_KG == [low |-> Rat(12, 10), mid |-> Rat(16, 10), high |-> Rat(2, 1)]

\* line 75
FAT_PER_KG_DEFAULT == Rat(8, 10)

\* lines 119-123
calculate_bmr(p) ==
    LET base == RatAdd(RatAdd(RatInt(10 * p.weight_kg), Rat(625 * p.height_cm, 100)),
                       RatInt(-5 * p.age))
    IN  IF p.sex = "male" THEN RatAdd(base, RatInt(5)) ELSE RatSub(base, RatInt(161))

\* lines 126-127
calculate_tdee(p, bmr) == RatMul(bmr, ACTIVITY_FACTORS[p.activity_level])

\* lines 130-143
adjust_for_goal(p, tdee) ==
    LET target == IF p.goal = "weight_loss" THEN RatSub(tdee, RatInt(500))
                  ELSE IF p.goal = "weight_gain" THEN RatAdd(tdee, RatInt(300))
                  ELSE tdee
        min_kcal == IF p.sex = "male" THEN 1200 ELSE 1000
    IN  IF RatLt(target, RatInt(min_kcal)) THEN RatInt(min_kcal) ELSE target

\* lines 146-178
calculate_macros(p, target_kcal) ==
    LET protein_g == RatMul(RatInt(p.weight_kg), PROTEIN_PER_KG[p.exercise_level])
        protein_kcal == RatMul(protein_g, RatInt(4))
        fat_g0 == RatMul(RatInt(p.weight_kg), FAT_PER_KG_DEFAULT)
        fat_kcal0 == RatMul(fat_g0, RatInt(9))
        remaining0 == RatSub(target_kcal, RatAdd(protein_kcal, fat_kcal0))
        short == RatLt(remaining0, RatZero)
        fat_kcal == IF short
                    THEN RatMaxOf(RatSub(fat_kcal0, RatNeg(remaining0)), RatZero)
                    ELSE fat_kcal0
        fat_g == IF short THEN RatDiv(fat_kcal, RatInt(9)) ELSE fat_g0
        carb_kcal == IF short THEN RatSub(target_kcal, RatAdd(protein_kcal, fat_kcal))
                     ELSE remaining0
        carb_g == RatDiv(carb_kcal, RatInt(4))
        pct(kcal) == RoundRat1(RatMul(RatDiv(kcal, target_kcal), RatInt(100)))
    IN  MacroTargets(RoundRat(target_kcal), RoundRat(protein_g), RoundRat(fat_g),
                     RoundRat(carb_g), pct(protein_kcal), pct(fat_kcal), pct(carb_kcal))

\* the profiles private.json can hold: an average adult and a short, heavy,
\* very old one
Ages == {30, 100}
HeightsCm == {100, 170}
WeightsKg == {60, 130}

UserProfiles ==
    {UserProfile(a, s, h, w, act, g, ex) :
        a \in Ages, s \in {"male", "female"}, h \in HeightsCm, w \in WeightsKg,
        act \in DOMAIN ACTIVITY_FACTORS, g \in {"weight_loss", "maintenance", "weight_gain"},
        ex \in DOMAIN PROTEIN_PER_KG}

macro_rest ==
    <<pipeline_vars, calc_vars, llm_vars, api_vars, react_vars, rt_vars, coach_vars, info_vars>>

\* load_user_profile: lines 82-100
MacroInit ==
    /\ has_client = TRUE
    /\ has_fatsecret = TRUE
    /\ PipelineIdle
    /\ log = <<>>
    /\ log0 = <<>>
    /\ CalcIdle
    /\ LlmIdle
    /\ ApiIdle
    /\ ReactIdle
    /\ RtIdle
    /\ CoachIdle
    /\ InfoIdle
    /\ profile \in UserProfiles
    /\ macros = MacrosPending

\* main: lines 185-192
ComputeMacros ==
    /\ macros.t = "pending"
    /\ macros' = calculate_macros(profile,
                     adjust_for_goal(profile, calculate_tdee(profile, calculate_bmr(profile))))
    /\ UNCHANGED profile
    /\ UNCHANGED macro_rest

MacroNext == ComputeMacros

MacroSpec == MacroInit /\ [][MacroNext]_vars

\* C30: the three gram targets are never negative.
C30_MacrosNonNegative ==
    macros.t = "returned" =>
        /\ macros.protein_g >= 0
        /\ macros.fat_g >= 0
        /\ macros.carb_g >= 0

====
